---------------------------- MODULE Spec2Model ----------------------------
(***************************************************************************)
(* Model of the heuristic inference core of                                *)
(* lambda/sap-claude-handler/lambda_function.py:                           *)
(*   _to_number, _detect_columns, _compute_stats, _identify_data_type,     *)
(*   validate_analysis_compatibility, _parse_csv_simple, and of the steps  *)
(*   of lambda_handler with process_sentry_webhook.                        *)
(*                                                                         *)
(* Conventions.                                                            *)
(*  - A Python str is the sequence of its characters.  An ASCII character *)
(*    is the one-character string, any other character is "u" followed by  *)
(*    its code point in hexadecimal: the str "A売上" is                    *)
(*    <<"A", "u58f2", "u4e0a">>.  Comments give the text in the clear.     *)
(*    Category names and analysis-type names are only ever compared for    *)
(*    equality by the code and are kept as plain strings.                  *)
(*  - A row (a dict in insertion order) is a sequence of cells             *)
(*    [k |-> column name, v |-> str(cell value)]; a key the row lacks has  *)
(*    no cell.  Every function modelled here reads a cell only through     *)
(*    str(value), so a cell is kept as that text.                          *)
(*  - A float is an exact rational [n |-> numerator, d |-> denominator]    *)
(*    in lowest terms with d > 0, or with d = 0 for inf, -inf and nan.     *)
(*    The rounding of IEEE doubles is not modelled.                        *)
(***************************************************************************)
EXTENDS Integers, Sequences, FiniteSets, TLC

VARIABLES
  value,                    \* _to_number: the argument
  rows,                     \* the dataset handed to _detect_columns / _compute_stats
  columns,                  \* _identify_data_type: the column-name list
  sample_data,              \* _identify_data_type: the sample rows
  detected_data_type,       \* validate_analysis_compatibility: first argument
  requested_analysis_type,  \* validate_analysis_compatibility: second argument
  colmap,                   \* result of _detect_columns(rows)
  stats,                    \* result of _compute_stats(rows)
  data_type,                \* outcome of _identify_data_type(columns, sample_data)
  scores,                   \* _identify_data_type: its dict scores when it returned
  compat,                   \* result of validate_analysis_compatibility(...)
  number,                   \* result of _to_number(value)
  returned,                 \* the functions that have been called and have ended
  isolated,                 \* the first call made: its function, arguments and outcome
  picks,                    \* how many times a call has been given new arguments
  pc,                       \* lambda_handler: the place it has reached
  response,                 \* lambda_handler: what it returned
  request                   \* lambda_handler: what it reads of the event and its JSON body

vars == <<value, rows, columns, sample_data, detected_data_type,
          requested_analysis_type, colmap, stats, data_type, scores, compat, number,
          returned, isolated, picks, pc, response, request>>

-----------------------------------------------------------------------------
(* Bounds of the model *)

\* most rows of a dataset in Spec
MaxRows == 2

\* most rows of a dataset in SpecTop
MaxTopRows == 6

\* most columns of the first row in SpecDetect
MaxCols == 3

\* most column names handed to _identify_data_type in SpecClassify
MaxClassCols == 2

-----------------------------------------------------------------------------
(* Python str operations *)

\* str.lower() on one character, for the ASCII letters
UpperLetters ==
  <<"A", "B", "C", "D", "E", "F", "G", "H", "I", "J", "K", "L", "M",
    "N", "O", "P", "Q", "R", "S", "T", "U", "V", "W", "X", "Y", "Z">>

LowerLetters ==
  <<"a", "b", "c", "d", "e", "f", "g", "h", "i", "j", "k", "l", "m",
    "n", "o", "p", "q", "r", "s", "t", "u", "v", "w", "x", "y", "z">>

LowerMap ==
  [c \in {UpperLetters[i] : i \in DOMAIN UpperLetters} |->
     LowerLetters[CHOOSE i \in DOMAIN UpperLetters : UpperLetters[i] = c]]

LowerChar(c) == IF c \in DOMAIN LowerMap THEN LowerMap[c] ELSE c

\* s.lower()
Lower(s) == [i \in 1..Len(s) |-> LowerChar(s[i])]

\* the whitespace str.strip() removes, among the characters of the modelled texts
IsSpace(c) == c \in {" ", "\t", "\n"}

RECURSIVE LStrip(_)
LStrip(s) == IF s # <<>> /\ IsSpace(s[1]) THEN LStrip(Tail(s)) ELSE s

RECURSIVE RStrip(_)
RStrip(s) ==
  IF s # <<>> /\ IsSpace(s[Len(s)]) THEN RStrip(SubSeq(s, 1, Len(s) - 1)) ELSE s

\* s.strip()
Strip(s) == RStrip(LStrip(s))

\* s.replace(old, new) for a one-character old and a new of length 0 or 1
RECURSIVE Replace(_, _, _)
Replace(s, old, new) ==
  IF s = <<>> THEN <<>>
  ELSE (IF s[1] = old THEN new ELSE <<s[1]>>) \o Replace(Tail(s), old, new)

\* sub in s
Contains(s, sub) ==
  \E i \in 1..(Len(s) - Len(sub) + 1) :
     \A j \in 1..Len(sub) : s[i + j - 1] = sub[j]

\* s[:n]
Prefix(s, n) == IF Len(s) <= n THEN s ELSE SubSeq(s, 1, n)

\* ord(c) for the characters a day bucket of the modelled cells can hold
Ord ==
  [c \in {" ", "-", "/", "0", "1", "2", "3", "4", "5", "6", "7", "8", "9", ":"} |->
     CASE c = " " -> 32 [] c = "-" -> 45 [] c = "/" -> 47 [] c = "0" -> 48
       [] c = "1" -> 49 [] c = "2" -> 50 [] c = "3" -> 51 [] c = "4" -> 52
       [] c = "5" -> 53 [] c = "6" -> 54 [] c = "7" -> 55 [] c = "8" -> 56
       [] c = "9" -> 57 [] c = ":" -> 58]

\* a < b for two str: by code point at the first difference, a proper prefix first
RECURSIVE StrLess(_, _)
StrLess(a, b) ==
  IF b = <<>> THEN FALSE
  ELSE IF a = <<>> THEN TRUE
  ELSE IF a[1] = b[1] THEN StrLess(Tail(a), Tail(b))
  ELSE Ord[a[1]] < Ord[b[1]]

-----------------------------------------------------------------------------
(* Python float, as an exact rational *)

Abs(i) == IF i < 0 THEN -i ELSE i

RECURSIVE GCD(_, _)
GCD(a, b) == IF b = 0 THEN a ELSE GCD(b, a % b)

\* inf, -inf and nan
Inf    == [n |-> 1, d |-> 0]
NegInf == [n |-> -1, d |-> 0]
NaN    == [n |-> 0, d |-> 0]

\* the float n/d in lowest terms (d > 0); d = 0 stands for inf, -inf and nan
Rat(n, d) ==
  IF d = 0 THEN (IF n > 0 THEN Inf ELSE IF n < 0 THEN NegInf ELSE NaN)
  ELSE LET g == GCD(Abs(n), d) IN [n |-> n \div g, d |-> d \div g]

\* 0.0
Zero == [n |-> 0, d |-> 1]

\* x + y; inf + inf = inf, inf + -inf = nan, nan + y = nan
RatAdd(x, y) ==
  IF x.d = 0 /\ y.d = 0 THEN (IF x = y THEN x ELSE NaN)
  ELSE Rat(x.n * y.d + y.n * x.d, x.d * y.d)

\* x < y (false when x or y is nan)
RatLess(x, y) == x.n * y.d < y.n * x.d

\* x / k for an int k > 0
RatDivInt(x, k) == Rat(x.n, x.d * k)

RECURSIVE Pow10(_)
Pow10(k) == IF k = 0 THEN 1 ELSE 10 * Pow10(k - 1)

\* int(c) for a decimal digit
DigitVal ==
  [c \in {"0", "1", "2", "3", "4", "5", "6", "7", "8", "9"} |->
     CASE c = "0" -> 0 [] c = "1" -> 1 [] c = "2" -> 2 [] c = "3" -> 3
       [] c = "4" -> 4 [] c = "5" -> 5 [] c = "6" -> 6 [] c = "7" -> 7
       [] c = "8" -> 8 [] c = "9" -> 9]

\* a run of decimal digits, in which single underscores may stand between
\* two digits ("1_000")
IsDigits(s) ==
  \A i \in 1..Len(s) :
     \/ s[i] \in DOMAIN DigitVal
     \/ /\ s[i] = "_"
        /\ 1 < i /\ i < Len(s)
        /\ s[i - 1] \in DOMAIN DigitVal
        /\ s[i + 1] \in DOMAIN DigitVal

\* the digits of a run
DigitCount(s) == Cardinality({i \in 1..Len(s) : s[i] # "_"})

RECURSIVE DigitsVal(_)
DigitsVal(s) ==
  IF s = <<>> THEN 0
  ELSE IF s[Len(s)] = "_" THEN DigitsVal(SubSeq(s, 1, Len(s) - 1))
  ELSE 10 * DigitsVal(SubSeq(s, 1, Len(s) - 1)) + DigitVal[s[Len(s)]]

\* index of the first character of s that is in set cs, 0 when there is none
FirstIn(s, cs) ==
  IF \E i \in 1..Len(s) : s[i] \in cs
  THEN CHOOSE i \in 1..Len(s) : s[i] \in cs /\ \A j \in 1..(i - 1) : s[j] \notin cs
  ELSE 0

\* s without a leading sign
Unsigned(s) == IF s # <<>> /\ s[1] \in {"+", "-"} THEN Tail(s) ELSE s

IsNeg(s) == s # <<>> /\ s[1] = "-"

\* s up to its character i (all of s when i = 0), and s behind it
Before(s, i) == IF i = 0 THEN s ELSE SubSeq(s, 1, i - 1)
After(s, i) == IF i = 0 THEN <<>> ELSE SubSeq(s, i + 1, Len(s))

\* an unsigned literal is "int [. frac] [e [sign] digits]"
Mantissa(b) == Before(b, FirstIn(b, {"e", "E"}))
Exponent(b) == After(b, FirstIn(b, {"e", "E"}))
HasExponent(b) == FirstIn(b, {"e", "E"}) # 0
IntPart(m) == Before(m, FirstIn(m, {"."}))
FracPart(m) == After(m, FirstIn(m, {"."}))

IsMantissa(m) ==
  /\ IsDigits(IntPart(m)) /\ IsDigits(FracPart(m))
  /\ Len(IntPart(m)) + Len(FracPart(m)) >= 1

\* "inf", "infinity" and "nan", in any case
IsInfLiteral(b) == Lower(b) \in {<<"i", "n", "f">>, <<"i", "n", "f", "i", "n", "i", "t", "y">>}
IsNanLiteral(b) == Lower(b) = <<"n", "a", "n">>

IsExponent(ex) == Unsigned(ex) # <<>> /\ IsDigits(Unsigned(ex))

\* whether float(s) accepts s (s already stripped): after an optional sign,
\* inf, infinity, nan, or a decimal literal with an optional fraction and
\* exponent (of ASCII digits)
IsFloatLiteral(s) ==
  \/ IsInfLiteral(Unsigned(s))
  \/ IsNanLiteral(Unsigned(s))
  \/ /\ IsMantissa(Mantissa(Unsigned(s)))
     /\ HasExponent(Unsigned(s)) => IsExponent(Exponent(Unsigned(s)))

\* the value of a mantissa
MantissaVal(m) ==
  Rat(DigitsVal(IntPart(m)) * Pow10(DigitCount(FracPart(m))) + DigitsVal(FracPart(m)),
      Pow10(DigitCount(FracPart(m))))

\* x times ten to the exponent ex (1 for no exponent)
Scaled(x, ex) ==
  IF IsNeg(ex) THEN Rat(x.n, x.d * Pow10(DigitsVal(Unsigned(ex))))
  ELSE Rat(x.n * Pow10(DigitsVal(Unsigned(ex))), x.d)

\* - x
RatNeg(x) == [n |-> -x.n, d |-> x.d]

UnsignedFloatOf(b) ==
  IF IsInfLiteral(b) THEN Inf
  ELSE IF IsNanLiteral(b) THEN NaN
  ELSE Scaled(MantissaVal(Mantissa(b)), Exponent(b))

\* float(s) for a literal float(s) accepts
FloatOf(s) ==
  IF IsNeg(s) THEN RatNeg(UnsignedFloatOf(Unsigned(s))) ELSE UnsignedFloatOf(Unsigned(s))

-----------------------------------------------------------------------------
(* Rows *)

\* key in r
HasKey(r, key) == \E i \in 1..Len(r) : r[i].k = key

\* r.get(key, default), as str(...) of what it returns
Get(r, key, default) ==
  IF HasKey(r, key) THEN r[CHOOSE i \in 1..Len(r) : r[i].k = key].v ELSE default

\* list(r.keys())
Keys(r) == [i \in 1..Len(r) |-> r[i].k]

-----------------------------------------------------------------------------
(* Python values and str(value) *)

\* a cell value: a str, an int, a float, a bool or None, a record whose one
\* field is named after the type
StrValue(text) == [str |-> text]
IntValue(i)    == [int |-> i]
FloatValue(x)  == [float |-> x]
BoolValue(b)   == [bool |-> b]
None           == [NoneType |-> <<>>]

TypeOf(val) == CHOOSE t \in DOMAIN val : TRUE

\* str(i) for 0 <= i <= 9
DigitChar(i) == <<"0", "1", "2", "3", "4", "5", "6", "7", "8", "9">>[i + 1]

\* str(i) for an int i >= 0
RECURSIVE NatStr(_)
NatStr(i) == IF i < 10 THEN <<DigitChar(i)>> ELSE NatStr(i \div 10) \o <<DigitChar(i % 10)>>

\* str(i) for an int
IntStr(i) == IF i < 0 THEN <<"-">> \o NatStr(-i) ELSE NatStr(i)

\* the decimal digits of rem/d behind the point, for 0 <= rem < d and d a
\* divisor of a power of ten
RECURSIVE FracDigits(_, _)
FracDigits(rem, d) ==
  IF rem = 0 THEN <<>>
  ELSE <<DigitChar((rem * 10) \div d)>> \o FracDigits((rem * 10) % d, d)

\* the text of a run of digits without its leading zeros
RECURSIVE NoLeadingZeros(_)
NoLeadingZeros(s) ==
  IF s # <<>> /\ s[1] = "0" THEN NoLeadingZeros(Tail(s)) ELSE s

\* repr of x with 0 < x < 0.0001, "1.5e-05": the significant digits ds and
\* the place of the first of them behind the point
SmallStr(ds, place) ==
  <<ds[1]>> \o (IF Len(ds) > 1 THEN <<".">> \o Tail(ds) ELSE <<>>)
    \o <<"e", "-">> \o (IF place < 10 THEN <<"0">> ELSE <<>>) \o NatStr(place)

\* repr of a finite x >= 0 (below 1e16, where the exponent form starts); the
\* exponent form is the one of 0 < x < 0.0001, that is 10000 * x.n < x.d
UnsignedFloatStr(x) ==
  IF x.n # 0 /\ x.n <= (x.d - 1) \div 10000
  THEN SmallStr(NoLeadingZeros(FracDigits(x.n, x.d)),
                Len(FracDigits(x.n, x.d))
                  - Len(NoLeadingZeros(FracDigits(x.n, x.d))) + 1)
  ELSE NatStr(x.n \div x.d) \o <<".">>
         \o (IF x.n % x.d = 0 THEN <<"0">> ELSE FracDigits(x.n % x.d, x.d))

\* str(x) for a float x
FloatStr(x) ==
  IF x = NaN THEN <<"n", "a", "n">>
  ELSE IF x = Inf THEN <<"i", "n", "f">>
  ELSE IF x = NegInf THEN <<"-", "i", "n", "f">>
  ELSE IF x.n < 0 THEN <<"-">> \o UnsignedFloatStr(RatNeg(x))
  ELSE UnsignedFloatStr(x)

\* str(value)
PyStr(val) ==
  CASE TypeOf(val) = "str"      -> val.str
    [] TypeOf(val) = "int"      -> IntStr(val.int)
    [] TypeOf(val) = "float"    -> FloatStr(val.float)
    [] TypeOf(val) = "bool"     -> (IF val.bool THEN <<"T", "r", "u", "e">> ELSE <<"F", "a", "l", "s", "e">>)
    [] TypeOf(val) = "NoneType" -> <<"N", "o", "n", "e">>

-----------------------------------------------------------------------------
(* _to_number *)

\* _to_number(x), x given as str(x)
\* float(s), the except branch of line 70 taken when float raises
FloatOrZero(s) == IF IsFloatLiteral(s) THEN FloatOf(s) ELSE Zero

\* _to_number without the replace of the yen sign
_to_number_NoYen(x) ==
  FloatOrZero(Strip(Replace(Replace(x, ",", <<>>), "u5186", <<>>)))   \* 円

\* _to_number without the replace of the comma
_to_number_KeepsComma(x) ==
  FloatOrZero(Strip(Replace(Replace(x, "u00a5", <<>>), "u5186", <<>>)))   \* ¥ 円

\* _to_number that also takes the decimal point out
_to_number_DropsPoint(x) ==
  FloatOrZero(Strip(Replace(Replace(Replace(Replace(x, ",", <<>>), "u00a5", <<>>), "u5186", <<>>),   \* ¥ 円
                            ".", <<>>)))

_to_number(x) ==
  FloatOrZero(Strip(Replace(Replace(Replace(x, ",", <<>>), "u00a5", <<>>), "u5186", <<>>)))   \* ¥ 円

-----------------------------------------------------------------------------
(* _detect_columns *)

\* the date test of line 79
IsDateName(name) ==
  LET lc == Lower(name)
  IN \/ Contains(name, <<"u65e5">>)   \* 日
     \/ Contains(lc, <<"d", "a", "t", "e">>)

\* the amount test of lines 82-83
IsSalesName(name) ==
  LET lc == Lower(name)
  IN \/ Contains(name, <<"u58f2">>)   \* 売
     \/ Contains(name, <<"u91d1", "u984d">>)   \* 金額
     \/ Contains(lc, <<"a", "m", "o", "u", "n", "t">>)
     \/ Contains(lc, <<"s", "a", "l", "e", "s">>)
     \/ Contains(lc, <<"t", "o", "t", "a", "l">>)
     \/ Contains(name, <<"u7d66", "u4e0e">>)   \* 給与
     \/ Contains(lc, <<"s", "a", "l", "a", "r", "y">>)
     \/ Contains(name, <<"u5728", "u5eab", "u91d1", "u984d">>)   \* 在庫金額
     \/ Contains(lc, <<"r", "o", "i">>)
     \/ Contains(name, <<"u4e88", "u7b97">>)   \* 予算

\* the entity test of lines 86-87
IsProductName(name) ==
  LET lc == Lower(name)
  IN \/ Contains(name, <<"u5546">>)   \* 商
     \/ Contains(name, <<"u54c1">>)   \* 品
     \/ Contains(lc, <<"p", "r", "o", "d", "u", "c", "t">>)
     \/ Contains(lc, <<"i", "t", "e", "m">>)
     \/ Contains(lc, <<"n", "a", "m", "e">>)
     \/ Contains(name, <<"u6c0f", "u540d">>)   \* 氏名
     \/ Contains(name, <<"u793e", "u54e1">>)   \* 社員
     \/ Contains(lc, <<"e", "m", "p", "l", "o", "y", "e", "e">>)
     \/ Contains(name, <<"u30ad", "u30e3", "u30f3", "u30da", "u30fc", "u30f3">>)   \* キャンペーン
     \/ Contains(name, <<"u5546", "u54c1", "u30b3", "u30fc", "u30c9">>)   \* 商品コード

\* SetDefault as the plain assignment m[key] = val: the last match wins
SetDefault_Overwrite(m, key, val) ==
  [x \in (DOMAIN m) \cup {key} |-> IF x = key THEN val ELSE m[x]]

\* m.setdefault(key, val) on a dict m
SetDefault(m, key, val) ==
  IF key \in DOMAIN m THEN m
  ELSE [x \in (DOMAIN m) \cup {key} |-> IF x = key THEN val ELSE m[x]]

\* one iteration of the loop of _detect_columns, for column name
DetectStep(m, name) ==
  LET m1 == IF IsDateName(name) THEN SetDefault(m, "date", name) ELSE m
      m2 == IF IsSalesName(name) THEN SetDefault(m1, "sales", name) ELSE m1
  IN IF IsProductName(name) THEN SetDefault(m2, "product", name) ELSE m2

RECURSIVE DetectLoop(_, _)
DetectLoop(m, names) ==
  IF names = <<>> THEN m ELSE DetectLoop(DetectStep(m, names[1]), Tail(names))

\* colmap kept from one call to the next: the call starts from the dict the
\* call before it returned
ColmapAtEntry_Shared == colmap

\* colmap at line 73: every call starts from a new, empty dict
ColmapAtEntry == <<>>

\* the keys of all the rows of rs, row after row
RECURSIVE AllKeys(_)
AllKeys(rs) == IF rs = <<>> THEN <<>> ELSE Keys(rs[1]) \o AllKeys(Tail(rs))

\* _detect_columns looping over the keys of every row, not of rows[0] only
_detect_columns_AllRows(rs) ==
  IF rs = <<>> THEN ColmapAtEntry ELSE DetectLoop(ColmapAtEntry, AllKeys(rs))

\* _detect_columns(rs): the dict role -> column name
_detect_columns(rs) ==
  IF rs = <<>> THEN ColmapAtEntry ELSE DetectLoop(ColmapAtEntry, Keys(rs[1]))


-----------------------------------------------------------------------------
(* _compute_stats *)

\* the n of by_product.most_common(n), line 114
TopN == 5

\* d[key] += v on a Counter or a defaultdict(float) d, kept as the sequence of
\* its items in insertion order; a missing key starts from 0
AddTo(d, key, v) ==
  IF \E i \in 1..Len(d) : d[i].k = key
  THEN [i \in 1..Len(d) |->
          IF d[i].k = key THEN [k |-> key, v |-> RatAdd(d[i].v, v)] ELSE d[i]]
  ELSE Append(d, [k |-> key, v |-> RatAdd(Zero, v)])

\* colmap.get(role) is a column name (and not None)
Bound(m, role) == role \in DOMAIN m /\ m[role] # <<>>

\* the day bucket without the cut dt[:10]
DayOf_NoCut(r, dcol) ==
  Replace(Strip(Get(r, dcol, <<>>)), "/", <<"-">>)

\* the day bucket of row r, lines 109-110
DayOf(r, dcol) ==
  Prefix(Replace(Strip(Get(r, dcol, <<>>)), "/", <<"-">>), 10)

\* the amount of row r, line 104; the default 0 of r.get(scol, 0) reads "0"
AmountOf(r, m) ==
  IF Bound(m, "sales") THEN _to_number(Get(r, m["sales"], <<"0">>)) ELSE Zero

\* StatsStep with "total_sales += v" moved under "if day:"
StatsStep_TotalUnderDay(a, r, m) ==
  LET v   == AmountOf(r, m)
      bp  == IF Bound(m, "product")
             THEN AddTo(a.by_product, Strip(Get(r, m["product"], <<>>)), v)
             ELSE a.by_product
      day == IF Bound(m, "date") THEN DayOf(r, m["date"]) ELSE <<>>
      ts  == IF Bound(m, "date") /\ day # <<>> THEN AddTo(a.ts, day, v) ELSE a.ts
  IN [total_sales |-> IF day # <<>> THEN RatAdd(a.total_sales, v) ELSE a.total_sales,
      by_product |-> bp, ts |-> ts]

\* StatsStep with the entity key taken without .strip()
StatsStep_NoStrip(a, r, m) ==
  LET v   == AmountOf(r, m)
      bp  == IF Bound(m, "product")
             THEN AddTo(a.by_product, Get(r, m["product"], <<>>), v)
             ELSE a.by_product
      day == IF Bound(m, "date") THEN DayOf(r, m["date"]) ELSE <<>>
      ts  == IF Bound(m, "date") /\ day # <<>> THEN AddTo(a.ts, day, v) ELSE a.ts
  IN [total_sales |-> RatAdd(a.total_sales, v), by_product |-> bp, ts |-> ts]

\* StatsStep without the tests "if pcol" and "if dcol": an unbound role reads
\* the default "" of r.get
StatsStep_NoRoleTest(a, r, m) ==
  LET v   == AmountOf(r, m)
      bp  == AddTo(a.by_product,
                   IF Bound(m, "product") THEN Strip(Get(r, m["product"], <<>>)) ELSE <<>>, v)
      day == IF Bound(m, "date") THEN DayOf(r, m["date"]) ELSE <<>>
      ts  == IF Bound(m, "date") /\ day # <<>> THEN AddTo(a.ts, day, v) ELSE a.ts
  IN [total_sales |-> RatAdd(a.total_sales, v), by_product |-> bp, ts |-> ts]

\* StatsStep with "by_product[...] += v" moved under "if day:"
StatsStep_EntityUnderDay(a, r, m) ==
  LET v   == AmountOf(r, m)
      day == IF Bound(m, "date") THEN DayOf(r, m["date"]) ELSE <<>>
      bp  == IF Bound(m, "product") /\ day # <<>>
             THEN AddTo(a.by_product, Strip(Get(r, m["product"], <<>>)), v)
             ELSE a.by_product
      ts  == IF Bound(m, "date") /\ day # <<>> THEN AddTo(a.ts, day, v) ELSE a.ts
  IN [total_sales |-> RatAdd(a.total_sales, v), by_product |-> bp, ts |-> ts]

\* one iteration of the loop of lines 103-112 on the accumulators a
StatsStep(a, r, m) ==
  LET v   == AmountOf(r, m)
      bp  == IF Bound(m, "product")
             THEN AddTo(a.by_product, Strip(Get(r, m["product"], <<>>)), v)
             ELSE a.by_product
      day == IF Bound(m, "date") THEN DayOf(r, m["date"]) ELSE <<>>
      ts  == IF Bound(m, "date") /\ day # <<>> THEN AddTo(a.ts, day, v) ELSE a.ts
  IN [total_sales |-> RatAdd(a.total_sales, v), by_product |-> bp, ts |-> ts]

RECURSIVE StatsLoop(_, _, _)
StatsLoop(a, rs, m) ==
  IF rs = <<>> THEN a ELSE StatsLoop(StatsStep(a, rs[1], m), Tail(rs), m)

\* InsertDesc with x put before its equals: equal counts come out last seen first
InsertDesc_BeforeEquals(s, x) ==
  LET notbigger == {i \in 1..Len(s) : ~RatLess(x.v, s[i].v)}
      at        == IF notbigger = {} THEN Len(s) + 1
                   ELSE CHOOSE i \in notbigger : \A j \in notbigger : i <= j
  IN SubSeq(s, 1, at - 1) \o <<x>> \o SubSeq(s, at, Len(s))

\* x put into the sequence s, sorted by descending v, behind its equals
InsertDesc(s, x) ==
  LET smaller == {i \in 1..Len(s) : RatLess(s[i].v, x.v)}
      at      == IF smaller = {} THEN Len(s) + 1
                 ELSE CHOOSE i \in smaller : \A j \in smaller : i <= j
  IN SubSeq(s, 1, at - 1) \o <<x>> \o SubSeq(s, at, Len(s))

RECURSIVE SortDesc(_, _)
SortDesc(done, todo) ==
  IF todo = <<>> THEN done ELSE SortDesc(InsertDesc(done, todo[1]), Tail(todo))

\* Counter.most_common(n): heapq.nlargest(n, items, key = count), which is
\* sorted(items, key = count, reverse = True)[:n], a stable sort (for counts
\* that are not nan)
MostCommon(c, n) == Prefix(SortDesc(<<>>, c), n)

\* x put into the sequence s, sorted by ascending key
InsertAsc(s, x) ==
  LET bigger == {i \in 1..Len(s) : StrLess(x.k, s[i].k)}
      at     == IF bigger = {} THEN Len(s) + 1
                ELSE CHOOSE i \in bigger : \A j \in bigger : i <= j
  IN SubSeq(s, 1, at - 1) \o <<x>> \o SubSeq(s, at, Len(s))

RECURSIVE SortAsc(_, _)
SortAsc(done, todo) ==
  IF todo = <<>> THEN done ELSE SortAsc(InsertAsc(done, todo[1]), Tail(todo))

\* SortedItems without the sort: ts.items() in insertion order
SortedItems_Unsorted(d) == d

\* sorted(ts.items()): the keys of a dict are distinct, the key decides
SortedItems(d) == SortAsc(<<>>, d)

\* the result for no rows with the average left as 0.0 / 0
EmptyStats_AverageUndefined ==
  [total_rows |-> 0, total_sales |-> Zero, avg_row_sales |-> NaN,
   top_products |-> <<>>, timeseries |-> <<>>]

\* the result for no rows, line 94
EmptyStats ==
  [total_rows |-> 0, total_sales |-> Zero, avg_row_sales |-> Zero,
   top_products |-> <<>>, timeseries |-> <<>>]

\* _compute_stats(rs)
_compute_stats(rs) ==
  LET total == Len(rs)
      m     == _detect_columns(rs)
      a     == StatsLoop([total_sales |-> Zero, by_product |-> <<>>, ts |-> <<>>], rs, m)
      top   == MostCommon(a.by_product, TopN)
      trend == SortedItems(a.ts)
  IN IF total = 0 THEN EmptyStats
     ELSE [total_rows    |-> total,
           total_sales   |-> a.total_sales,
           avg_row_sales |-> RatDivInt(a.total_sales, total),
           top_products  |-> [i \in 1..Len(top) |-> [name |-> top[i].k, sales |-> top[i].v]],
           timeseries    |-> [i \in 1..Len(trend) |-> [date |-> trend[i].k, sales |-> trend[i].v]]]

-----------------------------------------------------------------------------
(* _identify_data_type *)

\* the keys of scores, in the insertion order of lines 267-274
Categories ==
  <<"hr_data", "marketing_data", "sales_data", "financial_data",
    "inventory_data", "customer_data">>

\* sep.join(xs)
RECURSIVE Join(_, _)
Join(xs, sep) ==
  IF xs = <<>> THEN <<>>
  ELSE IF Len(xs) = 1 THEN xs[1]
  ELSE xs[1] \o sep \o Join(Tail(xs), sep)

\* col_str, lines 263-264
ColStr(cols) ==
  Join([i \in 1..Len(cols) |-> Lower(cols[i])], <<" ">>) \o <<" ">> \o Join(cols, <<" ">>)

\* line 277
hr_strong_keywords ==
  << <<"u793e", "u54e1", "i", "d">>, <<"e", "m", "p", "l", "o", "y", "e", "e">>, <<"u6c0f", "u540d">>, <<"u90e8", "u7f72">>, <<"u7d66", "u4e0e">>, <<"s", "a", "l", "a", "r", "y">>, <<"u8cde", "u4e0e">>,   \* 社員id 氏名 部署 給与 賞与
     <<"u5e74", "u53ce">>, <<"u8a55", "u4fa1">>, <<"p", "e", "r", "f", "o", "r", "m", "a", "n", "c", "e">>, <<"u6b8b", "u696d">>, <<"o", "v", "e", "r", "t", "i", "m", "e">>, <<"u6709", "u7d66">>,   \* 年収 評価 残業 有給
     <<"u96e2", "u8077">>, <<"u6607", "u9032">>, <<"u30b9", "u30ad", "u30eb">>, <<"u30c1", "u30fc", "u30e0", "u8ca2", "u732e">>, <<"u4eba", "u4e8b">> >>   \* 離職 昇進 スキル チーム貢献 人事

\* line 283
hr_medium_keywords ==
  << <<"u52e4", "u6020">>, <<"a", "t", "t", "e", "n", "d", "a", "n", "c", "e">>, <<"u7814", "u4fee">>, <<"t", "r", "a", "i", "n", "i", "n", "g">>, <<"u76ee", "u6a19", "u9054", "u6210">>, <<"u8077", "u4f4d">>,   \* 勤怠 研修 目標達成 職位
     <<"u5165", "u793e">>, <<"u5e74", "u9f62">> >>   \* 入社 年齢

\* line 289
marketing_strong_keywords ==
  << <<"u30ad", "u30e3", "u30f3", "u30da", "u30fc", "u30f3">>, <<"c", "a", "m", "p", "a", "i", "g", "n">>, <<"r", "o", "i">>, <<"u30a4", "u30f3", "u30d7", "u30ec", "u30c3", "u30b7", "u30e7", "u30f3">>, <<"i", "m", "p", "r", "e", "s", "s", "i", "o", "n">>,   \* キャンペーン インプレッション
     <<"u30af", "u30ea", "u30c3", "u30af">>, <<"c", "l", "i", "c", "k">>, <<"c", "v", "u6570">>, <<"c", "o", "n", "v", "e", "r", "s", "i", "o", "n">>, <<"u9867", "u5ba2", "u7372", "u5f97">>, <<"c", "a", "c">>,   \* クリック cv数 顧客獲得
     <<"r", "o", "a", "s">>, <<"u5e83", "u544a">>, <<"u5a92", "u4f53">>, <<"u30bf", "u30fc", "u30b2", "u30c3", "u30c8">> >>   \* 広告 媒体 ターゲット

\* line 295
marketing_medium_keywords ==
  << <<"u4e88", "u7b97">>, <<"b", "u", "d", "g", "e", "t">>, <<"u652f", "u51fa">>, <<"c", "o", "s", "t">>, <<"f", "a", "c", "e", "b", "o", "o", "k">>, <<"g", "o", "o", "g", "l", "e">>,   \* 予算 支出
     <<"y", "o", "u", "t", "u", "b", "e">>, <<"i", "n", "s", "t", "a", "g", "r", "a", "m">>, <<"t", "i", "k", "t", "o", "k">>, <<"t", "w", "i", "t", "t", "e", "r">> >>

\* line 301
sales_strong_keywords ==
  << <<"u58f2", "u4e0a">>, <<"s", "a", "l", "e", "s">>, <<"r", "e", "v", "e", "n", "u", "e">>, <<"u5546", "u54c1">>, <<"p", "r", "o", "d", "u", "c", "t">>, <<"u9867", "u5ba2">>,   \* 売上 商品 顧客
     <<"c", "u", "s", "t", "o", "m", "e", "r">>, <<"u91d1", "u984d">>, <<"a", "m", "o", "u", "n", "t">>, <<"u5358", "u4fa1">>, <<"p", "r", "i", "c", "e">>, <<"u6570", "u91cf">>,   \* 金額 単価 数量
     <<"q", "u", "a", "n", "t", "i", "t", "y">> >>

\* line 307
sales_medium_keywords ==
  << <<"u65e5", "u4ed8">>, <<"d", "a", "t", "e">>, <<"u5e97", "u8217">>, <<"s", "t", "o", "r", "e">>, <<"u5730", "u57df">>, <<"r", "e", "g", "i", "o", "n">>, <<"u30ab", "u30c6", "u30b4", "u30ea">>,   \* 日付 店舗 地域 カテゴリ
     <<"c", "a", "t", "e", "g", "o", "r", "y">> >>

\* line 313
financial_strong_keywords ==
  << <<"u58f2", "u4e0a", "u9ad8">>, <<"r", "e", "v", "e", "n", "u", "e">>, <<"u5229", "u76ca">>, <<"p", "r", "o", "f", "i", "t">>, <<"u8cc7", "u7523">>, <<"a", "s", "s", "e", "t">>, <<"u8ca0", "u50b5">>,   \* 売上高 利益 資産 負債
     <<"l", "i", "a", "b", "i", "l", "i", "t", "y">>, <<"u30ad", "u30e3", "u30c3", "u30b7", "u30e5">>, <<"c", "a", "s", "h">>, <<"u640d", "u76ca">>, <<"p", "l">>, <<"u8cb8", "u501f">>, <<"b", "s">> >>   \* キャッシュ 損益 貸借

\* line 319
inventory_strong_keywords ==
  << <<"u5728", "u5eab">>, <<"i", "n", "v", "e", "n", "t", "o", "r", "y">>, <<"s", "t", "o", "c", "k">>, <<"u5728", "u5eab", "u6570">>, <<"u4fdd", "u6709", "u6570">>, <<"u5009", "u5eab">>,   \* 在庫 在庫数 保有数 倉庫
     <<"w", "a", "r", "e", "h", "o", "u", "s", "e">>, <<"u56de", "u8ee2", "u7387">>, <<"t", "u", "r", "n", "o", "v", "e", "r">>, <<"u6ede", "u7559">>, <<"u5165", "u5eab">>, <<"u51fa", "u5eab">>,   \* 回転率 滞留 入庫 出庫
     <<"u8abf", "u9054">>, <<"p", "r", "o", "c", "u", "r", "e", "m", "e", "n", "t">> >>   \* 調達

\* line 325
inventory_medium_keywords ==
  << <<"u5546", "u54c1", "u30b3", "u30fc", "u30c9">>, <<"s", "k", "u">>, <<"u30ed", "u30c3", "u30c8">>, <<"l", "o", "t">>, <<"u54c1", "u756a">>, <<"u578b", "u756a">>, <<"u4ed5", "u5165">>,   \* 商品コード ロット 品番 型番 仕入
     <<"s", "u", "p", "p", "l", "i", "e", "r">>, <<"u767a", "u6ce8">>, <<"o", "r", "d", "e", "r">>, <<"u7d0d", "u671f">>, <<"d", "e", "l", "i", "v", "e", "r", "y">> >>   \* 発注 納期

\* line 331
customer_strong_keywords ==
  << <<"u9867", "u5ba2">>, <<"c", "u", "s", "t", "o", "m", "e", "r">>, <<"u4f1a", "u54e1">>, <<"m", "e", "m", "b", "e", "r">>, <<"u30e6", "u30fc", "u30b6", "u30fc">>, <<"u", "s", "e", "r">>,   \* 顧客 会員 ユーザー
     <<"l", "t", "v">>, <<"l", "i", "f", "e", "t", "i", "m", "e">>, <<"c", "h", "u", "r", "n">>, <<"u96e2", "u8131">>, <<"u7d99", "u7d9a">>, <<"r", "e", "t", "e", "n", "t", "i", "o", "n">>,   \* 離脱 継続
     <<"u6e80", "u8db3", "u5ea6">>, <<"s", "a", "t", "i", "s", "f", "a", "c", "t", "i", "o", "n">> >>   \* 満足度

\* line 337
customer_medium_keywords ==
  << <<"u30bb", "u30b0", "u30e1", "u30f3", "u30c8">>, <<"s", "e", "g", "m", "e", "n", "t">>, <<"u5e74", "u9f62">>, <<"a", "g", "e">>, <<"u6027", "u5225">>, <<"g", "e", "n", "d", "e", "r">>, <<"u5730", "u57df">>,   \* セグメント 年齢 性別 地域
     <<"r", "e", "g", "i", "o", "n">>, <<"u8cfc", "u5165", "u5c65", "u6b74">>, <<"p", "u", "r", "c", "h", "a", "s", "e">>, <<"u30a2", "u30af", "u30bb", "u30b9">>, <<"a", "c", "c", "e", "s", "s">>,   \* 購入履歴 アクセス
     <<"u30af", "u30ea", "u30c3", "u30af">>, <<"c", "l", "i", "c", "k">> >>   \* クリック

\* line 351: the list dept ranges over
dept_patterns ==
  << <<"u55b6", "u696d", "u90e8">>, <<"i", "t", "u90e8">>, <<"u4eba", "u4e8b", "u90e8">>, <<"u8ca1", "u52d9", "u90e8">>, <<"u30de", "u30fc", "u30b1", "u30c6", "u30a3", "u30f3", "u30b0", "u90e8">> >>   \* 営業部 it部 人事部 財務部 マーケティング部

\* line 353: the list pos ranges over
pos_patterns ==
  << <<"u4e3b", "u4efb">>, <<"u4fc2", "u9577">>, <<"u4e00", "u822c">>, <<"u90e8", "u9577">>, <<"u8ab2", "u9577">> >>   \* 主任 係長 一般 部長 課長

\* line 355: the list risk ranges over
risk_patterns ==
  << <<"u4f4e">>, <<"u4e2d">>, <<"u9ad8">> >>   \* 低 中 高

\* line 359: the list media ranges over
media_patterns ==
  << <<"g", "o", "o", "g", "l", "e", "u5e83", "u544a">>, <<"f", "a", "c", "e", "b", "o", "o", "k", "u5e83", "u544a">>, <<"y", "o", "u", "t", "u", "b", "e", "u5e83", "u544a">>, <<"i", "n", "s", "t", "a", "g", "r", "a", "m", "u5e83", "u544a">>,   \* google広告 facebook広告 youtube広告 instagram広告
     <<"l", "i", "n", "e", "u5e83", "u544a">>, <<"t", "i", "k", "t", "o", "k", "u5e83", "u544a">> >>   \* line広告 tiktok広告

\* line 361: the list metric ranges over
metric_patterns ==
  << <<"r", "o", "i">>, <<"u9054", "u6210", "u7387">>, <<"u6e80", "u8db3", "u5ea6">> >>   \* 達成率 満足度

\* line 371: the list unit ranges over
unit_patterns ==
  << <<"u500b">>, <<"u672c">>, <<"k", "g">>, <<"u7bb1">>, <<"u30bb", "u30c3", "u30c8">>, <<"u53f0">> >>   \* 個 本 箱 セット 台

\* line 375: the list status ranges over
status_patterns ==
  << <<"u5165", "u8377", "u5f85", "u3061">>, <<"u51fa", "u8377", "u6e08", "u307f">>, <<"u5728", "u5eab", "u5207", "u308c">>, <<"u8abf", "u9054", "u4e2d">> >>   \* 入荷待ち 出荷済み 在庫切れ 調達中

\* line 379: the list age ranges over
age_patterns ==
  << <<"2", "0", "u4ee3">>, <<"3", "0", "u4ee3">>, <<"4", "0", "u4ee3">>, <<"5", "0", "u4ee3">>, <<"6", "0", "u4ee3">> >>   \* 20代 30代 40代 50代 60代

\* line 381: the list gender ranges over
gender_patterns ==
  << <<"u7537", "u6027">>, <<"u5973", "u6027">>, <<"m", "a", "l", "e">>, <<"f", "e", "m", "a", "l", "e">>, <<"u7537">>, <<"u5973">> >>   \* 男性 女性 男 女

\* how many times the body of "for keyword in kws: if keyword in col_str"
\* runs: once for each keyword of the list that col_str contains
Hits(col_str, kws) ==
  Cardinality({i \in DOMAIN kws : Contains(col_str, kws[i])})

\* scores after the keyword loops, lines 276-340
KeywordScores(col_str) ==
  [hr_data        |-> 3 * Hits(col_str, hr_strong_keywords)
                        + 2 * Hits(col_str, hr_medium_keywords),
   marketing_data |-> 3 * Hits(col_str, marketing_strong_keywords)
                        + Hits(col_str, marketing_medium_keywords),
   sales_data     |-> 3 * Hits(col_str, sales_strong_keywords)
                        + Hits(col_str, sales_medium_keywords),
   financial_data |-> 3 * Hits(col_str, financial_strong_keywords),
   inventory_data |-> 3 * Hits(col_str, inventory_strong_keywords)
                        + Hits(col_str, inventory_medium_keywords),
   customer_data  |-> 3 * Hits(col_str, customer_strong_keywords)
                        + Hits(col_str, customer_medium_keywords)]

\* any(p in s for p in pats)
AnyIn(s, pats) == \E i \in DOMAIN pats : Contains(s, pats[i])

\* the characters c with c.isdecimal(), which int() reads, and their values:
\* the ASCII digits and the full-width digits
DecimalChars ==
  <<"0", "1", "2", "3", "4", "5", "6", "7", "8", "9",
    "uff10", "uff11", "uff12", "uff13", "uff14", "uff15", "uff16", "uff17",
    "uff18", "uff19">>

\* characters c with c.isdigit() and not c.isdecimal(): superscript 1, 2, 3
\* and the circled 1
OtherDigitChars == {"u00b9", "u00b2", "u00b3", "u2460"}

IsDecimalChar(c) == \E i \in DOMAIN DecimalChars : DecimalChars[i] = c

DecimalVal(c) == ((CHOOSE i \in DOMAIN DecimalChars : DecimalChars[i] = c) - 1) % 10

\* s.isdigit()
IsDigit(s) ==
  /\ s # <<>>
  /\ \A i \in DOMAIN s : IsDecimalChar(s[i]) \/ s[i] \in OtherDigitChars

\* int(s) raises ValueError, for s with s.isdigit()
IntRaises(s) == \E i \in DOMAIN s : ~IsDecimalChar(s[i])

\* int(s), for s of decimal characters
RECURSIVE IntOf(_)
IntOf(s) ==
  IF s = <<>> THEN 0 ELSE 10 * IntOf(SubSeq(s, 1, Len(s) - 1)) + DecimalVal(s[Len(s)])

\* the age test of line 379 on str_value sv raises: no decade pattern is in
\* sv, sv.isdigit() holds and int(sv) fails
AgeTestRaises(sv) ==
  ~AnyIn(sv, age_patterns) /\ IsDigit(sv) /\ IntRaises(sv)

\* the age test of line 379, when it does not raise
AgeTest(sv) ==
  \/ AnyIn(sv, age_patterns)
  \/ IsDigit(sv) /\ 18 <= IntOf(sv) /\ IntOf(sv) <= 80

\* b and w or 0
Pts(b, w) == IF b THEN w ELSE 0

\* what one item (key, value) of the sample adds to scores, lines 348-384;
\* sv is str(value).lower()
HrPoints(key, sv) ==
    Pts(AnyIn(sv, dept_patterns), 5)
  + Pts(AnyIn(sv, pos_patterns), 3)
  + Pts(AnyIn(sv, risk_patterns)
          /\ (Contains(key, <<"u30ea", "u30b9", "u30af">>) \/ Contains(Lower(key), <<"r", "i", "s", "k">>)), 4)   \* リスク

MarketingPoints(key, sv) ==
    Pts(AnyIn(sv, media_patterns), 5)
  + Pts(Contains(sv, <<"%">>) /\ AnyIn(Lower(key), metric_patterns), 2)

SalesPoints(key, sv) ==
    Pts(Contains(key, <<"u5546", "u54c1">>) \/ Contains(Lower(key), <<"p", "r", "o", "d", "u", "c", "t">>), 3)   \* 商品
  + Pts(Lower(key) \in {<<"u5e97", "u8217">>, <<"s", "t", "o", "r", "e">>} /\ sv # <<>>, 4)   \* 店舗

InventoryPoints(key, sv) ==
    Pts(AnyIn(sv, unit_patterns), 2)
  + Pts(Contains(Lower(key), <<"w", "a", "r", "e", "h", "o", "u", "s", "e">>) \/ Contains(key, <<"u5009", "u5eab">>), 3)   \* 倉庫
  + Pts(AnyIn(sv, status_patterns), 4)

CustomerPoints(key, sv) ==
    Pts(AgeTest(sv), 3)
  + Pts(AnyIn(sv, gender_patterns), 3)
  + Pts(Contains(sv, <<"@">>), 4)

\* one iteration of the loop of line 347 on scores sc
SampleStep(sc, item) ==
  [hr_data        |-> sc.hr_data + HrPoints(item.k, Lower(item.v)),
   marketing_data |-> sc.marketing_data + MarketingPoints(item.k, Lower(item.v)),
   sales_data     |-> sc.sales_data + SalesPoints(item.k, Lower(item.v)),
   financial_data |-> sc.financial_data,
   inventory_data |-> sc.inventory_data + InventoryPoints(item.k, Lower(item.v)),
   customer_data  |-> sc.customer_data + CustomerPoints(item.k, Lower(item.v))]

RECURSIVE SampleLoop(_, _)
SampleLoop(sc, items) ==
  IF items = <<>> THEN sc ELSE SampleLoop(SampleStep(sc, items[1]), Tail(items))

\* the loop of line 347 raises ValueError: some item of sample_data[0] does;
\* nothing follows the loop but the return
SampleRaises(sample) ==
  /\ sample # <<>>
  /\ \E i \in DOMAIN sample[1] : AgeTestRaises(Lower(sample[1][i].v))

\* all the items of the rows of sample, row after row
RECURSIVE AllItems(_)
AllItems(sample) == IF sample = <<>> THEN <<>> ELSE sample[1] \o AllItems(Tail(sample))

\* the items of the rows behind the first on which the age test does not raise
Readable(item) == ~AgeTestRaises(Lower(item.v))

\* Scores with the loop of line 347 run over the first row and then over the
\* readable items of every other row of sample_data
Scores_AllRows(cols, sample) ==
  IF sample # <<>>
  THEN SampleLoop(KeywordScores(ColStr(cols)),
                  sample[1] \o SelectSeq(AllItems(Tail(sample)), Readable))
  ELSE KeywordScores(ColStr(cols))

\* scores at line 387, for a non-empty column list and a sample that does
\* not raise
Scores(cols, sample) ==
  IF sample # <<>> THEN SampleLoop(KeywordScores(ColStr(cols)), sample[1])
  ELSE KeywordScores(ColStr(cols))

\* scores as built at lines 267-274
ZeroScores ==
  [hr_data |-> 0, marketing_data |-> 0, sales_data |-> 0, financial_data |-> 0,
   inventory_data |-> 0, customer_data |-> 0]

\* scores when the call returns; the return of line 260, for an empty column
\* list, comes before scores is built and leaves the zeros here
FinalScores(cols, sample) ==
  IF cols = <<>> THEN ZeroScores ELSE Scores(cols, sample)

\* the eleven keyword loops of lines 276-340: the key of scores, the tier the
\* comment above the list gives it, the number added, and the list
KeywordTables ==
  << [cat |-> "hr_data",        tier |-> "strong", weight |-> 3, kws |-> hr_strong_keywords],
     [cat |-> "hr_data",        tier |-> "medium", weight |-> 2, kws |-> hr_medium_keywords],
     [cat |-> "marketing_data", tier |-> "strong", weight |-> 3, kws |-> marketing_strong_keywords],
     [cat |-> "marketing_data", tier |-> "medium", weight |-> 1, kws |-> marketing_medium_keywords],
     [cat |-> "sales_data",     tier |-> "strong", weight |-> 3, kws |-> sales_strong_keywords],
     [cat |-> "sales_data",     tier |-> "medium", weight |-> 1, kws |-> sales_medium_keywords],
     [cat |-> "financial_data", tier |-> "strong", weight |-> 3, kws |-> financial_strong_keywords],
     [cat |-> "inventory_data", tier |-> "strong", weight |-> 3, kws |-> inventory_strong_keywords],
     [cat |-> "inventory_data", tier |-> "medium", weight |-> 1, kws |-> inventory_medium_keywords],
     [cat |-> "customer_data",  tier |-> "strong", weight |-> 3, kws |-> customer_strong_keywords],
     [cat |-> "customer_data",  tier |-> "medium", weight |-> 1, kws |-> customer_medium_keywords] >>

RECURSIVE Concat(_)
Concat(seqs) == IF seqs = <<>> THEN <<>> ELSE seqs[1] \o Concat(Tail(seqs))

\* one execution of scores[cat] += weight, or none when the test b fails
Increment(b, cat, tier, weight) ==
  IF b THEN <<[cat |-> cat, tier |-> tier, weight |-> weight]>> ELSE <<>>

\* the executions of "scores[...] += ..." in the keyword loops, in order
KeywordIncrements(col_str) ==
  Concat([t \in DOMAIN KeywordTables |->
            Concat([i \in DOMAIN KeywordTables[t].kws |->
                      Increment(Contains(col_str, KeywordTables[t].kws[i]),
                                KeywordTables[t].cat, KeywordTables[t].tier,
                                KeywordTables[t].weight)])])

\* the executions of "scores[...] += ..." for one item of the sample, lines
\* 350-384, in order; sv is str(value).lower()
ItemIncrements(key, sv) ==
  Concat(<<
    Increment(AnyIn(sv, dept_patterns), "hr_data", "value", 5),
    Increment(AnyIn(sv, pos_patterns), "hr_data", "value", 3),
    Increment(AnyIn(sv, risk_patterns)
                /\ (Contains(key, <<"u30ea", "u30b9", "u30af">>) \/ Contains(Lower(key), <<"r", "i", "s", "k">>)),   \* リスク
              "hr_data", "value", 4),
    Increment(AnyIn(sv, media_patterns), "marketing_data", "value", 5),
    Increment(Contains(sv, <<"%">>) /\ AnyIn(Lower(key), metric_patterns),
              "marketing_data", "value", 2),
    Increment(Contains(key, <<"u5546", "u54c1">>) \/ Contains(Lower(key), <<"p", "r", "o", "d", "u", "c", "t">>),   \* 商品
              "sales_data", "value", 3),
    Increment(Lower(key) \in {<<"u5e97", "u8217">>, <<"s", "t", "o", "r", "e">>} /\ sv # <<>>, "sales_data", "value", 4),   \* 店舗
    Increment(AnyIn(sv, unit_patterns), "inventory_data", "value", 2),
    Increment(Contains(Lower(key), <<"w", "a", "r", "e", "h", "o", "u", "s", "e">>) \/ Contains(key, <<"u5009", "u5eab">>),   \* 倉庫
              "inventory_data", "value", 3),
    Increment(AnyIn(sv, status_patterns), "inventory_data", "value", 4),
    Increment(AgeTest(sv), "customer_data", "value", 3),
    Increment(AnyIn(sv, gender_patterns), "customer_data", "value", 3),
    Increment(Contains(sv, <<"@">>), "customer_data", "value", 4) >>)

\* every execution of "scores[...] += ..." of a call that returns, in order
Increments(cols, sample) ==
  IF cols = <<>> THEN <<>>
  ELSE KeywordIncrements(ColStr(cols))
         \o (IF sample # <<>>
             THEN Concat([i \in DOMAIN sample[1] |->
                            ItemIncrements(sample[1][i].k, Lower(sample[1][i].v))])
             ELSE <<>>)

\* max(scores.values())
MaxScore(sc) ==
  CHOOSE v \in {sc[Categories[i]] : i \in DOMAIN Categories} :
     \A i \in DOMAIN Categories : sc[Categories[i]] <= v

\* FirstMax taking the last key with the highest score
FirstMax_Last(sc) ==
  Categories[CHOOSE i \in DOMAIN Categories :
                /\ sc[Categories[i]] = MaxScore(sc)
                /\ \A j \in DOMAIN Categories :
                      sc[Categories[j]] = MaxScore(sc) => j <= i]

\* max(scores, key = scores.get): the first key, in insertion order, with the
\* highest score
FirstMax(sc) ==
  Categories[CHOOSE i \in DOMAIN Categories :
                /\ sc[Categories[i]] = MaxScore(sc)
                /\ \A j \in DOMAIN Categories :
                      sc[Categories[j]] = MaxScore(sc) => i <= j]

\* Selected without the test of line 387
Selected_NoZeroTest(sc) == FirstMax(sc)

\* the return value of lines 387-391
Selected(sc) ==
  IF MaxScore(sc) > 0 THEN FirstMax(sc) ELSE "financial_data"

\* _identify_data_type(cols, sample) raises ValueError
_identify_data_type_raises(cols, sample) ==
  cols # <<>> /\ SampleRaises(sample)

\* _identify_data_type(cols, sample), when it returns
_identify_data_type(cols, sample) ==
  IF cols = <<>> THEN "financial_data" ELSE Selected(Scores(cols, sample))

-----------------------------------------------------------------------------
(* _parse_csv_simple *)

\* text.splitlines(), for the line ends \n, \r\n and \r: the lines without
\* their ends, and no last empty line after a final line end
RECURSIVE SplitLinesFrom(_, _)
SplitLinesFrom(text, line) ==
  IF text = <<>> THEN (IF line = <<>> THEN <<>> ELSE <<line>>)
  ELSE IF text[1] = "\r" /\ Len(text) > 1 /\ text[2] = "\n"
       THEN <<line>> \o SplitLinesFrom(SubSeq(text, 3, Len(text)), <<>>)
  ELSE IF text[1] \in {"\n", "\r"}
       THEN <<line>> \o SplitLinesFrom(Tail(text), <<>>)
  ELSE SplitLinesFrom(Tail(text), Append(line, text[1]))

SplitLines(text) == SplitLinesFrom(text, <<>>)

\* s.split(sep) for a one-character sep: always at least one piece
RECURSIVE SplitFrom(_, _, _)
SplitFrom(s, sep, piece) ==
  IF s = <<>> THEN <<piece>>
  ELSE IF s[1] = sep THEN <<piece>> \o SplitFrom(Tail(s), sep, <<>>)
  ELSE SplitFrom(Tail(s), sep, Append(piece, s[1]))

Split(s, sep) == SplitFrom(s, sep, <<>>)

\* [x.strip() for x in s.split(",")]
StrippedCells(line) ==
  LET pieces == Split(line, ",") IN [i \in DOMAIN pieces |-> Strip(pieces[i])]

\* line 245: the lines of csv_text that are not blank
NonBlankLines(csv_text) ==
  SelectSeq(SplitLines(csv_text), LAMBDA l : Strip(l) # <<>>)

\* row[h] = v with every header name kept as a cell of its own, also a
\* name the row has already
SetItem_Append(row, h, v) == Append(row, [k |-> h, v |-> v])

\* row[h] = v on a dict: a key the row has keeps its place and takes the new
\* value, a new key comes last
SetItem(row, h, v) ==
  IF HasKey(row, h)
  THEN [i \in DOMAIN row |-> IF row[i].k = h THEN [k |-> h, v |-> v] ELSE row[i]]
  ELSE Append(row, [k |-> h, v |-> v])

\* lines 251-253: the row of one line, from the header at place i on
RECURSIVE CsvRowFrom(_, _, _, _)
CsvRowFrom(row, headers, cells, i) ==
  IF i > Len(headers) THEN row
  ELSE CsvRowFrom(SetItem(row, headers[i], IF i <= Len(cells) THEN cells[i] ELSE <<>>),
                  headers, cells, i + 1)

\* _parse_csv_simple(csv_text), lines 244-255
_parse_csv_simple(csv_text) ==
  LET lines == NonBlankLines(csv_text)
  IN IF lines = <<>> THEN <<>>
     ELSE LET headers == StrippedCells(lines[1])
          IN [n \in 1..(Len(lines) - 1) |->
                CsvRowFrom(<<>>, headers, StrippedCells(lines[n + 1]), 1)]

-----------------------------------------------------------------------------
(* validate_analysis_compatibility *)

\* type_names.get(data_type, default) of _get_data_type_name
_get_data_type_name(t) ==
  CASE t = "pl_statement"       -> <<"u640d", "u76ca", "u8a08", "u7b97", "u66f8", "uff08", "P", "L", "u8868", "uff09">>   \* 損益計算書（PL表）
    [] t = "balance_sheet"      -> <<"u8cb8", "u501f", "u5bfe", "u7167", "u8868", "uff08", "B", "S", "uff09">>   \* 貸借対照表（BS）
    [] t = "cashflow_statement" -> <<"u30ad", "u30e3", "u30c3", "u30b7", "u30e5", "u30d5", "u30ed", "u30fc", "u8a08", "u7b97", "u66f8">>   \* キャッシュフロー計算書
    [] t = "sales_data"         -> <<"u58f2", "u4e0a", "u30c7", "u30fc", "u30bf">>   \* 売上データ
    [] t = "inventory_data"     -> <<"u5728", "u5eab", "u30c7", "u30fc", "u30bf">>   \* 在庫データ
    [] t = "customer_data"      -> <<"u9867", "u5ba2", "u30c7", "u30fc", "u30bf">>   \* 顧客データ
    [] t = "hr_data"            -> <<"u4eba", "u4e8b", "u30c7", "u30fc", "u30bf">>   \* 人事データ
    [] t = "marketing_data"     -> <<"u30de", "u30fc", "u30b1", "u30c6", "u30a3", "u30f3", "u30b0", "u30c7", "u30fc", "u30bf">>   \* マーケティングデータ
    [] t = "financial_data"     -> <<"u8ca1", "u52d9", "u30c7", "u30fc", "u30bf">>   \* 財務データ
    [] t = "document_data"      -> <<"u66f8", "u985e", "u753b", "u50cf", "u30c7", "u30fc", "u30bf">>   \* 書類画像データ
    [] t = "unknown"            -> <<"u4e0d", "u660e", "u306a", "u30c7", "u30fc", "u30bf">>   \* 不明なデータ
    [] OTHER                    -> <<"u8ca1", "u52d9", "u30c7", "u30fc", "u30bf">>   \* 財務データ

\* the compatibility matrix, a dict in insertion order: its items
compatibility_matrix ==
  << [key |-> "sales", primary |-> <<"sales_data">>,
      secondary |-> <<"financial_data">>, name |-> <<"u58f2", "u4e0a", "u5206", "u6790">>],   \* 売上分析
     [key |-> "hr", primary |-> <<"hr_data">>,
      secondary |-> <<>>, name |-> <<"u4eba", "u4e8b", "u5206", "u6790">>],   \* 人事分析
     [key |-> "marketing", primary |-> <<"marketing_data">>,
      secondary |-> <<"financial_data">>, name |-> <<"u30de", "u30fc", "u30b1", "u30c6", "u30a3", "u30f3", "u30b0", "u5206", "u6790">>],   \* マーケティング分析
     [key |-> "strategic", primary |-> <<"financial_data", "sales_data">>,
      secondary |-> <<"hr_data", "marketing_data">>, name |-> <<"u7d71", "u5408", "u6226", "u7565", "u5206", "u6790">>] >>   \* 統合戦略分析

\* the keys of the matrix
MatrixKeys == {compatibility_matrix[i].key : i \in DOMAIN compatibility_matrix}

\* compatibility_matrix[key], for a key of the matrix
Config(key) ==
  compatibility_matrix[CHOOSE i \in DOMAIN compatibility_matrix :
                          compatibility_matrix[i].key = key]

\* x in xs, for a list xs
InList(x, xs) == \E i \in DOMAIN xs : xs[i] = x

\* config['primary'] + config['secondary']
AllAllowed(config) == config.primary \o config.secondary

\* the entries of the matrix that list the detected type
Matching(detected) ==
  {i \in DOMAIN compatibility_matrix :
      InList(detected, AllAllowed(compatibility_matrix[i]))}

\* best_match after the loop of lines 455-459: the name of the first entry
\* that lists the detected type; None, kept as the empty text (the code only
\* tests its truth), when no entry does
BestMatch(detected) ==
  IF Matching(detected) = {} THEN <<>>
  ELSE compatibility_matrix[CHOOSE i \in Matching(detected) :
                               \A j \in Matching(detected) : i <= j].name

\* the local error_msg of lines 461-473; no return statement uses it
ErrorMsg(detected, config) ==
  <<"u26a0", "ufe0f", " ", "u30c7", "u30fc", "u30bf", "u30bf", "u30a4", "u30d7", "u306e", "u4e0d", "u4e00", "u81f4", "u304c", "u691c", "u51fa", "u3055", "u308c", "u307e", "u3057", "u305f", "\n", "\n", "u30a2", "u30c3", "u30d7", "u30ed", "u30fc", "u30c9", "u3055", "u308c", "u305f", "u30c7", "u30fc", "u30bf", ":", " ">>   \* ⚠️ データタイプの不一致が検出されました\n\nアップロードされたデータ: 
    \o _get_data_type_name(detected)
    \o <<"\n", "u9078", "u629e", "u3055", "u308c", "u305f", "u5206", "u6790", ":", " ">> \o config.name   \* \n選択された分析: 
    \o <<"\n", "\n", "u3053", "u306e", "u30c7", "u30fc", "u30bf", "u306f">> \o config.name \o <<"u306b", "u306f", "u6700", "u9069", "u5316", "u3055", "u308c", "u3066", "u3044", "u307e", "u305b", "u3093", "u3002">>   \* \n\nこのデータは には最適化されていません。
    \o (IF BestMatch(detected) # <<>>
        THEN <<"\n", "\n", "u1f4a1", " ", "u3053", "u306e", "u30c7", "u30fc", "u30bf", "u306b", "u306f", "u300c">> \o BestMatch(detected)   \* \n\n💡 このデータには「
               \o <<"u300d", "u304c", "u304a", "u3059", "u3059", "u3081", "u3067", "u3059", "u3002", "\n", "\n", "u305f", "u3060", "u3057", "u3001", "u305d", "u306e", "u307e", "u307e", "u5206", "u6790", "u3092", "u7d9a", "u884c", "u3059", "u308b", "u3053", "u3068", "u3082", "u53ef", "u80fd", "u3067", "u3059", "u3002">>   \* 」がおすすめです。\n\nただし、そのまま分析を続行することも可能です。
        ELSE <<"\n", "\n", "u300c", "u7d71", "u5408", "u6226", "u7565", "u5206", "u6790", "u300d", "u30dc", "u30bf", "u30f3", "u3092", "u304a", "u8a66", "u3057", "u304f", "u3060", "u3055", "u3044", "u3002">>)   \* \n\n「統合戦略分析」ボタンをお試しください。

\* the returned pair (bool, str)
Pair(proceed, message) == [proceed |-> proceed, message |-> message]

\* validate_analysis_compatibility with the mismatch branches blocking:
\* return False, error_msg
validate_Blocking(detected, requested) ==
  IF requested \notin MatrixKeys THEN Pair(TRUE, <<>>)
  ELSE IF InList(detected, AllAllowed(Config(requested))) THEN Pair(TRUE, <<>>)
  ELSE Pair(FALSE, ErrorMsg(detected, Config(requested)))

\* validate_analysis_compatibility that looks the detected type up in
\* config['primary'] only and returns error_msg with a mismatch
validate_PrimaryOnly(detected, requested) ==
  IF requested \notin MatrixKeys THEN Pair(TRUE, <<>>)
  ELSE IF InList(detected, Config(requested).primary) THEN Pair(TRUE, <<>>)
  ELSE Pair(TRUE, ErrorMsg(detected, Config(requested)))

\* validate_analysis_compatibility(detected_data_type, requested_analysis_type)
validate_analysis_compatibility(detected, requested) ==
  IF requested \notin MatrixKeys THEN Pair(TRUE, <<>>)                       \* 441-442
  ELSE IF InList(detected, AllAllowed(Config(requested))) THEN Pair(TRUE, <<>>) \* 449-450
  ELSE IF BestMatch(detected) # <<>> THEN Pair(TRUE, <<>>)                    \* 471
  ELSE Pair(TRUE, <<>>)                                                       \* 474

-----------------------------------------------------------------------------
(* The calls.  A call reads its arguments and leaves its outcome in the    *)
(* result variable of its function; `returned` records which calls have    *)
(* ended and how, `isolated` the first call made since the start.          *)

\* the arguments of the five functions, and the state of lambda_handler
arguments ==
  <<value, rows, columns, sample_data, detected_data_type, requested_analysis_type>>

handler == <<pc, response, request>>

\* what the result variables hold before the call
NoCompat == [proceed |-> TRUE, message |-> <<>>]

NoFirstCall == [f |-> "none"]

NoResponse == [statusCode |-> 0]

\* no event has come
NoRequest == [salesData |-> <<>>]

\* the call of f on args, with its outcome, is kept when it is the first call
FirstCall(f, args, outcome) ==
  isolated' = IF isolated.f = "none"
              THEN [f |-> f, args |-> args, outcome |-> outcome]
              ELSE isolated

CallToNumber ==
  /\ "_to_number" \notin returned
  /\ number' = _to_number(PyStr(value))
  /\ returned' = returned \cup {"_to_number"}
  /\ FirstCall("_to_number", <<value>>, number')
  /\ UNCHANGED <<arguments, picks, handler, colmap, stats, data_type, scores, compat>>

CallDetectColumns ==
  /\ "_detect_columns" \notin returned
  /\ colmap' = _detect_columns(rows)
  /\ returned' = returned \cup {"_detect_columns"}
  /\ FirstCall("_detect_columns", <<rows>>, colmap')
  /\ UNCHANGED <<arguments, picks, handler, stats, data_type, scores, compat, number>>

CallComputeStats ==
  /\ "_compute_stats" \notin returned
  /\ stats' = _compute_stats(rows)
  /\ returned' = returned \cup {"_compute_stats"}
  /\ FirstCall("_compute_stats", <<rows>>, stats')
  /\ UNCHANGED <<arguments, picks, handler, colmap, data_type, scores, compat, number>>

\* the call returns its result, or ends by raising ValueError
CallIdentifyDataType ==
  /\ "_identify_data_type" \notin returned
  /\ "_identify_data_type: ValueError" \notin returned
  /\ IF _identify_data_type_raises(columns, sample_data)
     THEN /\ returned' = returned \cup {"_identify_data_type: ValueError"}
          /\ FirstCall("_identify_data_type", <<columns, sample_data>>, "ValueError")
          /\ UNCHANGED <<data_type, scores>>
     ELSE /\ data_type' = _identify_data_type(columns, sample_data)
          /\ scores' = FinalScores(columns, sample_data)
          /\ returned' = returned \cup {"_identify_data_type"}
          /\ FirstCall("_identify_data_type", <<columns, sample_data>>, data_type')
  /\ UNCHANGED <<arguments, picks, handler, colmap, stats, compat, number>>

\* lines 1378-1379: the csv text of the body is parsed into the dataset
CallParseCsv ==
  /\ "_parse_csv_simple" \notin returned
  /\ "csv" \in DOMAIN request
  /\ rows' = _parse_csv_simple(request.csv)
  /\ returned' = returned \cup {"_parse_csv_simple"}
  /\ FirstCall("_parse_csv_simple", <<request.csv>>, rows')
  /\ UNCHANGED <<value, columns, sample_data, detected_data_type, requested_analysis_type,
                 picks, handler, colmap, stats, data_type, scores, compat, number>>

CallValidate ==
  /\ "validate_analysis_compatibility" \notin returned
  /\ compat' = validate_analysis_compatibility(detected_data_type, requested_analysis_type)
  /\ returned' = returned \cup {"validate_analysis_compatibility"}
  /\ FirstCall("validate_analysis_compatibility",
               <<detected_data_type, requested_analysis_type>>, compat')
  /\ UNCHANGED <<arguments, picks, handler, colmap, stats, data_type, scores, number>>

-----------------------------------------------------------------------------
(* Spec: _compute_stats on datasets with the columns of the sales example *)

DateCol    == <<"u65e5", "u4ed8">>   \* 日付
ProductCol == <<"u5546", "u54c1", "u540d">>   \* 商品名
SalesCol   == <<"u58f2", "u4e0a", "u91d1", "u984d">>   \* 売上金額

DateCells    == {<<"2", "0", "2", "4", "-", "0", "1", "-", "0", "1">>, <<"2", "0", "2", "4", "/", "0", "1", "/", "0", "1", " ", "0", "9", ":", "0", "0">>, <<"9", "/", "1">>}
ProductCells == {<<"A">>, <<" ", "A">>, <<"B">>, <<" ">>}
SalesCells   == {<<"5", "0", ",", "0", "0", "0">>, <<"3", "0", ",", "0", "0", "0">>}

\* a row holds, in this order, a date cell, an entity cell and an amount cell,
\* each of which may be missing
Cell(col, cells) == {<<>>} \cup {<<[k |-> col, v |-> c]>> : c \in cells}

RowPool ==
  {d \o p \o s : d \in Cell(DateCol, DateCells),
                 p \in Cell(ProductCol, ProductCells),
                 s \in Cell(SalesCol, SalesCells)}

Datasets(pool, n) == UNION {[1..k -> pool] : k \in 0..n}

NoCall ==
  /\ colmap = <<>>
  /\ stats = EmptyStats
  /\ data_type = ""
  /\ scores = ZeroScores
  /\ compat = NoCompat
  /\ number = Zero
  /\ returned = {}
  /\ isolated = NoFirstCall
  /\ picks = 0
  /\ pc = "idle"
  /\ response = NoResponse
  /\ request = NoRequest

Init ==
  /\ rows \in Datasets(RowPool, MaxRows)
  /\ columns = <<>>
  /\ sample_data = <<>>
  /\ detected_data_type = ""
  /\ requested_analysis_type = ""
  /\ value = None
  /\ NoCall

Next == CallComputeStats

Spec == Init /\ [][Next]_vars

-----------------------------------------------------------------------------
(* What the claims say of a dataset, stated on the rows themselves; m is    *)
(* the role map _detect_columns gives the dataset                          *)

\* the amount of row r: _to_number of its cell in the amount column, 0.0 for a
\* row that lacks the cell (and when no column has the amount role)
RowAmount(m, r) ==
  IF "sales" \in DOMAIN m /\ HasKey(r, m["sales"])
  THEN _to_number(Get(r, m["sales"], <<>>))
  ELSE Zero

\* the amounts of the rows of rs
RowAmounts(rs) ==
  LET m == _detect_columns(rs) IN [i \in 1..Len(rs) |-> RowAmount(m, rs[i])]

\* the sum of the amounts am[i] for i in S
RECURSIVE SumOf(_, _)
SumOf(am, S) ==
  IF S = {} THEN Zero
  ELSE LET i == CHOOSE i \in S : TRUE IN RatAdd(am[i], SumOf(am, S \ {i}))

\* the entity name of row r: its entity cell as text, stripped ("" for a row
\* that lacks the cell)
RowEntity(m, r) ==
  IF HasKey(r, m["product"]) THEN Strip(Get(r, m["product"], <<>>)) ELSE <<>>

\* the entity names of the rows of rs, which has a column in the entity role
RowEntities(rs) ==
  LET m == _detect_columns(rs) IN [i \in 1..Len(rs) |-> RowEntity(m, rs[i])]

\* the day buckets of the rows of rs ("" when no column has the date role)
RowDays(rs) ==
  LET m == _detect_columns(rs)
  IN [i \in 1..Len(rs) |-> IF "date" \in DOMAIN m THEN DayOf(rs[i], m["date"]) ELSE <<>>]

\* the sum of the sales of the entries of a result list
RECURSIVE SumEntries(_)
SumEntries(es) ==
  IF es = <<>> THEN Zero ELSE RatAdd(es[1].sales, SumEntries(Tail(es)))

StatsReturned == "_compute_stats" \in returned

-----------------------------------------------------------------------------
(* Claims on _compute_stats *)

\* C1: for a non-empty dataset total_sales is the sum over every row of
\* _to_number of the row's amount cell (0 for a row lacking it), total_rows is
\* the number of rows, and avg_row_sales is total_sales / total_rows.
C1_TotalRowsAverage ==
  (StatsReturned /\ rows # <<>>) =>
     LET sum == SumOf(RowAmounts(rows), 1..Len(rows))
     IN /\ stats.total_sales = sum
        /\ stats.total_rows = Len(rows)
        /\ stats.avg_row_sales.n * sum.d * Len(rows) = sum.n * stats.avg_row_sales.d

\* C1 witness: two rows, one of them lacking the amount cell, total 50000.0
\* and average 25000.0
C1_Witness ==
  /\ StatsReturned
  /\ Len(rows) = 2
  /\ HasKey(rows[1], SalesCol) /\ ~HasKey(rows[2], SalesCol)
  /\ stats.total_sales = [n |-> 50000, d |-> 1]
  /\ stats.avg_row_sales = [n |-> 25000, d |-> 1]

\* C3: every entry of top_products carries the sum of the amounts of exactly
\* the rows whose stripped entity text is its name; names that differ only by
\* surrounding whitespace are one entry; rows with a missing or blank entity
\* cell are the entry named "", listed like any other.
C3_EntityAmounts ==
  (StatsReturned /\ "product" \in DOMAIN _detect_columns(rows)) =>
     LET top == stats.top_products
         am  == RowAmounts(rows)
         en  == RowEntities(rows)
         of(name) == {i \in 1..Len(rows) : en[i] = name}
     IN /\ \A e \in 1..Len(top) :
             /\ of(top[e].name) # {}
             /\ top[e].sales = SumOf(am, of(top[e].name))
        /\ \A e, f \in 1..Len(top) : top[e].name = top[f].name => e = f
        /\ \A i \in 1..Len(rows) :
             \/ \E e \in 1..Len(top) : top[e].name = en[i]
             \/ Len(top) = TopN

\* C3 witness: a row whose entity cell is blank and a row that lacks the cell
\* are summed under the name "": 50000.0 + 30000.0
C3_Witness ==
  /\ StatsReturned
  /\ Len(rows) = 2
  /\ HasKey(rows[1], ProductCol) /\ Get(rows[1], ProductCol, <<>>) = <<" ">>
  /\ ~HasKey(rows[2], ProductCol)
  /\ Len(stats.top_products) = 1
  /\ stats.top_products[1].name = <<>>
  /\ stats.top_products[1].sales = [n |-> 80000, d |-> 1]

\* C4: the timeseries has exactly one entry per distinct non-empty day bucket,
\* in ascending lexicographic order of the day, each with the sum of the
\* amounts of the rows of its bucket; together the entries sum to the total of
\* the rows that have a non-empty bucket.
C4_Timeseries ==
  StatsReturned =>
     LET ts == stats.timeseries
         am == RowAmounts(rows)
         dy == RowDays(rows)
         of(day) == {i \in 1..Len(rows) : dy[i] = day}
     IN /\ \A e \in 1..Len(ts) :
             /\ ts[e].date # <<>>
             /\ of(ts[e].date) # {}
             /\ ts[e].sales = SumOf(am, of(ts[e].date))
        /\ \A i \in 1..Len(rows) :
             dy[i] # <<>> => \E e \in 1..Len(ts) : ts[e].date = dy[i]
        /\ \A e, f \in 1..Len(ts) : e < f => StrLess(ts[e].date, ts[f].date)
        /\ SumEntries(ts) = SumOf(am, {i \in 1..Len(rows) : dy[i] # <<>>})

\* C4 witness: the later day comes first in the rows and last in the timeseries
C4_Witness ==
  /\ StatsReturned
  /\ Len(rows) = 2
  /\ Len(stats.timeseries) = 2
  /\ stats.timeseries[1].date = RowDays(rows)[2]
  /\ stats.timeseries[2].date = RowDays(rows)[1]
  /\ stats.timeseries[1].sales # Zero

-----------------------------------------------------------------------------
(* SpecTop: _compute_stats on datasets with more entities than top_products *)
(* can list.  Every row has an entity cell and an amount cell.  The code   *)
(* compares entity names for equality only, so a dataset takes its names   *)
(* from EntityNames in the order in which its entities first appear.       *)

EntityNames == <<<<"C">>, <<"A">>, <<"F">>, <<"B">>, <<"E">>, <<"D">>, <<"G">>>>
TopAmounts  == {<<"1">>, <<"2">>}

TopRow(e, a) == <<[k |-> ProductCol, v |-> EntityNames[e]], [k |-> SalesCol, v |-> a]>>

\* e[i] is the entity of row i, by its place in EntityNames: a new entity
\* takes the first name not yet used
FirstAppearanceOrder(e) ==
  \A i \in DOMAIN e : e[i] <= Cardinality({e[j] : j \in 1..(i - 1)}) + 1

InitTop ==
  /\ \E n \in 0..MaxTopRows :
       \E e \in [1..n -> 1..Len(EntityNames)] :
          /\ FirstAppearanceOrder(e)
          /\ \E a \in [1..n -> TopAmounts] :
                rows = [i \in 1..n |-> TopRow(e[i], a[i])]
  /\ columns = <<>>
  /\ sample_data = <<>>
  /\ detected_data_type = ""
  /\ requested_analysis_type = ""
  /\ value = None
  /\ NoCall

NextTop == CallComputeStats

SpecTop == InitTop /\ [][NextTop]_vars

\* the entity names of the rows of rs (none when no column has the entity role)
EntityColumn(rs) ==
  IF "product" \in DOMAIN _detect_columns(rs) THEN RowEntities(rs) ELSE <<>>

\* the accumulated amount of each entity, for the names en and the amounts am
\* of the rows
EntityTotals(en, am) ==
  [x \in {en[i] : i \in 1..Len(en)} |-> SumOf(am, {i \in 1..Len(en) : en[i] = x})]

\* the first row that names each entity
FirstSeen(en) ==
  [x \in {en[i] : i \in 1..Len(en)} |->
     CHOOSE i \in 1..Len(en) : en[i] = x /\ \A j \in 1..(i - 1) : en[j] # x]

\* entity x ranks before entity y: a higher amount, or the same amount and
\* first seen earlier
RanksBefore(tot, fs, x, y) ==
  \/ RatLess(tot[y], tot[x])
  \/ tot[x] = tot[y] /\ fs[x] < fs[y]

\* the names top_products lists
Listed == {stats.top_products[e].name : e \in 1..Len(stats.top_products)}

\* C2: top_products has at most 5 entries, they are the entities with the
\* highest accumulated amounts among all entities, in descending order of
\* amount, and of two entities with equal amounts the one first seen earlier
\* comes first (and is the one kept when the tie is on the 5th place).
C2_TopFive ==
  StatsReturned =>
     LET top == stats.top_products
         en  == EntityColumn(rows)
         tot == EntityTotals(en, RowAmounts(rows))
         fs  == FirstSeen(en)
     IN /\ Len(top) <= TopN
        /\ Listed \subseteq DOMAIN tot
        /\ Cardinality(Listed) = Len(top)
        /\ Len(top) < TopN => Listed = DOMAIN tot
        /\ \A e, f \in 1..Len(top) :
              e < f => RanksBefore(tot, fs, top[e].name, top[f].name)
        /\ \A x \in (DOMAIN tot) \ Listed :
              \A y \in Listed : RanksBefore(tot, fs, y, x)

\* C2 witness: six entities, the one left out has the amount of the 5th entry
\* and was first seen after it, and the first entry is not the first entity seen
C2_Witness ==
  /\ StatsReturned
  /\ Len(stats.top_products) = TopN
  /\ LET en  == EntityColumn(rows)
         tot == EntityTotals(en, RowAmounts(rows))
     IN /\ Cardinality(DOMAIN tot) = 6
        /\ \E x \in (DOMAIN tot) \ Listed : tot[x] = stats.top_products[TopN].sales
        /\ FirstSeen(en)[stats.top_products[1].name] > 1

-----------------------------------------------------------------------------
(* SpecDetect: _detect_columns on datasets whose first row has up to       *)
(* MaxCols columns, named by distinct names of DetectNames in any order;   *)
(* a second row, when there is one, has a column the first row may lack.   *)

\* column names: 商品名 (entity), 売上金額 (amount), 日付 (date), 売上日 (amount
\* and date), 商品売上 (amount and entity), Date (date, by its lower case),
\* Item Total (amount and entity, by its lower case), 備考 (no role)
DetectNames ==
  {<<"u5546", "u54c1", "u540d">>, <<"u58f2", "u4e0a", "u91d1", "u984d">>, <<"u65e5", "u4ed8">>, <<"u58f2", "u4e0a", "u65e5">>, <<"u5546", "u54c1", "u58f2", "u4e0a">>, <<"D", "a", "t", "e">>, <<"I", "t", "e", "m", " ", "T", "o", "t", "a", "l">>, <<"u5099", "u8003">>}   \* 商品名 売上金額 日付 売上日 商品売上 備考

\* the row with the columns names, in this order
DetectRow(names) == [i \in 1..Len(names) |-> [k |-> names[i], v |-> <<"1">>]]

\* what may follow the first row
LaterRows == {<<>>, <<DetectRow(<<<<"u65e5", "u4ed8">>>>)>>}   \* 日付

InitDetect ==
  /\ \/ rows = <<>>
     \/ \E n \in 0..MaxCols :
          \E names \in [1..n -> DetectNames] :
             /\ \A i, j \in 1..n : names[i] = names[j] => i = j
             /\ \E more \in LaterRows : rows = <<DetectRow(names)>> \o more
  /\ columns = <<>>
  /\ sample_data = <<>>
  /\ detected_data_type = ""
  /\ requested_analysis_type = ""
  /\ value = None
  /\ NoCall

NextDetect == CallDetectColumns

SpecDetect == InitDetect /\ [][NextDetect]_vars

DetectReturned == "_detect_columns" \in returned

\* the columns of the first row that pass Test, by their place in key order
Passing(Test(_)) ==
  {i \in 1..Len(rows[1]) : Test(Keys(rows[1])[i])}

\* role is bound to the earliest column that passes Test, and is absent from
\* the map when no column passes
BoundToFirst(role, Test(_)) ==
  LET pass == Passing(Test)
  IN IF pass = {} THEN role \notin DOMAIN colmap
     ELSE /\ role \in DOMAIN colmap
          /\ \E i \in pass :
                /\ \A j \in pass : i <= j
                /\ colmap[role] = Keys(rows[1])[i]

\* C5: for each role (date, amount = "sales", entity = "product") the bound
\* column is the earliest column of the first row, in key order, whose name
\* passes the role's keyword test, whatever other roles that column or a
\* later one is bound to; the role is absent exactly when no column passes
\* (and the map is empty for no rows).  Columns 商品名, 売上金額, 日付 bind
\* date to 日付, amount to 売上金額 and entity to 商品名.
C5_FirstMatchWins ==
  DetectReturned =>
     IF rows = <<>> THEN DOMAIN colmap = {}
     ELSE /\ BoundToFirst("date", IsDateName)
          /\ BoundToFirst("sales", IsSalesName)
          /\ BoundToFirst("product", IsProductName)
          /\ DOMAIN colmap \subseteq {"date", "sales", "product"}
          /\ Keys(rows[1]) = <<<<"u5546", "u54c1", "u540d">>, <<"u58f2", "u4e0a", "u91d1", "u984d">>, <<"u65e5", "u4ed8">>>> =>   \* 商品名 売上金額 日付
                /\ DOMAIN colmap = {"date", "sales", "product"}
                /\ colmap["date"] = <<"u65e5", "u4ed8">>   \* 日付
                /\ colmap["sales"] = <<"u58f2", "u4e0a", "u91d1", "u984d">>   \* 売上金額
                /\ colmap["product"] = <<"u5546", "u54c1", "u540d">>   \* 商品名

\* C5 witness: the first column holds two roles, a later column passes the
\* tests of both and takes neither, and a third role goes to the last column
C5_Witness ==
  /\ DetectReturned
  /\ Len(rows) = 1
  /\ Keys(rows[1]) = <<<<"u58f2", "u4e0a", "u65e5">>, <<"u5546", "u54c1", "u58f2", "u4e0a">>, <<"u5546", "u54c1", "u540d">>>>   \* 売上日 商品売上 商品名
  /\ colmap["date"] = <<"u58f2", "u4e0a", "u65e5">>   \* 売上日
  /\ colmap["sales"] = <<"u58f2", "u4e0a", "u65e5">>   \* 売上日
  /\ colmap["product"] = <<"u5546", "u54c1", "u58f2", "u4e0a">>   \* 商品売上

-----------------------------------------------------------------------------
(* SpecValidate: validate_analysis_compatibility on every pair of a        *)
(* detected type and a requested analysis type of the sets below           *)

\* the six categories of _identify_data_type, two further names
\* _get_data_type_name knows, and a name found nowhere
DetectedTypes ==
  {"hr_data", "marketing_data", "sales_data", "financial_data", "inventory_data",
   "customer_data", "document_data", "unknown", "other_data"}

\* the keys of the matrix, the other analysis types lambda_handler derives
\* (lines 1390-1401), the empty text and a name found nowhere
RequestedTypes ==
  {"sales", "hr", "marketing", "strategic", "inventory", "customer", "financial",
   "document", "", "other"}

InitValidate ==
  /\ rows = <<>>
  /\ columns = <<>>
  /\ sample_data = <<>>
  /\ detected_data_type \in DetectedTypes
  /\ requested_analysis_type \in RequestedTypes
  /\ value = None
  /\ NoCall

NextValidate == CallValidate

SpecValidate == InitValidate /\ [][NextValidate]_vars

ValidateReturned == "validate_analysis_compatibility" \in returned

\* the requested analysis type is a key of the matrix and the detected type
\* is in neither of its sets
Mismatch ==
  /\ requested_analysis_type \in MatrixKeys
  /\ ~InList(detected_data_type, AllAllowed(Config(requested_analysis_type)))

\* C8: with a recognized intended category and a detected category in
\* neither of its sets, the result is proceed = true with a non-empty
\* advisory message, which names a better-suited category when some matrix
\* entry lists the detected category.
C8_AdvisoryOnMismatch ==
  (ValidateReturned /\ Mismatch) =>
     /\ compat.proceed = TRUE
     /\ compat.message # <<>>
     /\ BestMatch(detected_data_type) # <<>> =>
           Contains(compat.message, BestMatch(detected_data_type))

\* C9: for every pair (detected, intended), names found nowhere in the
\* matrix included, the result has proceed = true.
C9_NeverBlocks ==
  ValidateReturned => compat.proceed = TRUE

\* C9 witness: a mismatch (inventory data under "hr") has been let through
C9_Witness ==
  /\ ValidateReturned
  /\ Mismatch
  /\ detected_data_type = "inventory_data"
  /\ requested_analysis_type = "hr"
  /\ compat.proceed = TRUE

\* C10: the result is proceed = true with the empty message whenever the
\* detected category is in the intended category's primary or secondary set
\* (sales: sales_data, financial_data; hr: hr_data; marketing: marketing_data,
\* financial_data; strategic: financial_data, sales_data, hr_data,
\* marketing_data), and whenever the intended category is none of sales, hr,
\* marketing, strategic.
C10_AllowedOrUnrecognized ==
  LET sets == [sales     |-> {"sales_data", "financial_data"},
               hr        |-> {"hr_data"},
               marketing |-> {"marketing_data", "financial_data"},
               strategic |-> {"financial_data", "sales_data", "hr_data",
                              "marketing_data"}]
      r == requested_analysis_type
  IN (/\ ValidateReturned
      /\ \/ r \notin {"sales", "hr", "marketing", "strategic"}
         \/ detected_data_type \in sets[r])
     => compat = [proceed |-> TRUE, message |-> <<>>]

\* C10 witness: financial data, which is only in the secondary set of
\* "marketing", has passed without a message
C10_Witness ==
  /\ ValidateReturned
  /\ detected_data_type = "financial_data"
  /\ requested_analysis_type = "marketing"
  /\ ~InList(detected_data_type, Config(requested_analysis_type).primary)
  /\ compat = [proceed |-> TRUE, message |-> <<>>]

-----------------------------------------------------------------------------
(* SpecClassify: _identify_data_type on column lists of up to MaxClassCols *)
(* names of ClassColumns (a name may recur) and the samples of Samples     *)

\* column names, with the keywords they hold: 顧客 (sales, customer: 3 each),
\* 地域 (sales, customer: 1 each), クリック (marketing 3, customer 1),
\* revenue (sales, financial: 3 each), Stock (inventory 3, by its lower
\* case), 氏名 (hr 3), 備考 (none), 顧客名 (a second name that holds 顧客)
ClassColumns ==
  {<<"u9867", "u5ba2">>, <<"u5730", "u57df">>, <<"u30af", "u30ea", "u30c3", "u30af">>, <<"r", "e", "v", "e", "n", "u", "e">>, <<"S", "t", "o", "c", "k">>, <<"u6c0f", "u540d">>, <<"u5099", "u8003">>, <<"u9867", "u5ba2", "u540d">>}   \* 顧客 地域 クリック 氏名 備考 顧客名

\* sample cell values: a department (hr 5), a superscript two (a digit int()
\* does not read), an age (customer 3), a number below the ages, a gender
\* (customer 3), the empty text, a quantity with its unit (inventory 2)
SampleValues == {<<"u55b6", "u696d", "u90e8">>, <<"u00b2">>, <<"2", "5">>, <<"1", "7">>, <<"u7537", "u6027">>, <<>>, <<"3", "u500b">>}   \* 営業部 ² 男性 3個

\* sample rows: no cell, one cell under 部署 or 商品 (a key that adds 3 to
\* sales whatever the value), or a 部署 cell followed by a 商品 cell
SampleRows ==
  {<<>>}
    \cup {<<[k |-> key, v |-> v]>> : key \in {<<"u90e8", "u7f72">>, <<"u5546", "u54c1">>}, v \in SampleValues}   \* 部署 商品
    \cup {<<[k |-> <<"u90e8", "u7f72">>, v |-> v], [k |-> <<"u5546", "u54c1">>, v |-> w]>> :   \* 部署 商品
            v \in SampleValues, w \in SampleValues}

\* the samples: none, one row, or a row followed by a row the code never reads
Samples ==
  {<<>>} \cup {<<r>> : r \in SampleRows}
         \cup {<<<<>>, <<[k |-> <<"u90e8", "u7f72">>, v |-> <<"u00b2">>]>> >>}   \* 部署 ²

InitClassify ==
  /\ rows = <<>>
  /\ \E n \in 0..MaxClassCols : columns \in [1..n -> ClassColumns]
  /\ sample_data \in Samples
  /\ detected_data_type = ""
  /\ requested_analysis_type = ""
  /\ value = None
  /\ NoCall

NextClassify == CallIdentifyDataType

SpecClassify == InitClassify /\ [][NextClassify]_vars

IdentifyReturned == "_identify_data_type" \in returned

\* the place of category c in the fixed order
OrderOf(c) == CHOOSE i \in DOMAIN Categories : Categories[i] = c

\* the categories with the highest score of sc
Highest(sc) ==
  {c \in DOMAIN sc : \A d \in DOMAIN sc : sc[d] <= sc[c]}

\* every category score of sc is zero
AllZero(sc) == \A c \in DOMAIN sc : sc[c] = 0

\* C6: the returned category has the maximum of the six category scores, and
\* when several categories share a positive maximum it is the one that comes
\* first in the order hr_data, marketing_data, sales_data, financial_data,
\* inventory_data, customer_data.
C6_MaxScoreFirstInOrder ==
  (IdentifyReturned /\ columns # <<>>) =>
     LET sc == Scores(columns, sample_data)
     IN /\ DOMAIN sc = {"hr_data", "marketing_data", "sales_data",
                        "financial_data", "inventory_data", "customer_data"}
        /\ data_type \in Highest(sc)
        /\ sc[data_type] > 0 =>
              \A c \in Highest(sc) : OrderOf(data_type) <= OrderOf(c)

\* C6 witness: sales_data and customer_data share the highest score, which
\* the sample has raised, and sales_data is returned
C6_Witness ==
  /\ IdentifyReturned
  /\ columns # <<>>
  /\ sample_data # <<>>
  /\ LET sc == Scores(columns, sample_data)
     IN /\ Highest(sc) = {"sales_data", "customer_data"}
        /\ sc.sales_data > 3
        /\ sc.sales_data > KeywordScores(ColStr(columns)).sales_data
  /\ data_type = "sales_data"

\* C7: the result is financial_data whenever every category score is zero and
\* whenever the column list is empty, whatever the sample holds; the result is
\* always one of the six category names.
C7_DefaultCategory ==
  IdentifyReturned =>
     /\ \E i \in DOMAIN Categories : data_type = Categories[i]
     /\ columns = <<>> => data_type = "financial_data"
     /\ (columns # <<>> /\ AllZero(Scores(columns, sample_data)))
           => data_type = "financial_data"

\* C7 witness: a column and a sample cell that score nothing give the default
C7_Witness ==
  /\ IdentifyReturned
  /\ columns # <<>>
  /\ sample_data # <<>>
  /\ sample_data[1] # <<>>
  /\ AllZero(Scores(columns, sample_data))
  /\ data_type = "financial_data"

-----------------------------------------------------------------------------
(* Exceptions *)

\* the ways a call can end without an exception
NormalReturns ==
  {"_detect_columns", "_to_number", "_compute_stats", "_identify_data_type",
   "validate_analysis_compatibility"}

\* C11: for datasets whose rows map text column names to text, numbers or
\* nothing, no call of _detect_columns, _to_number, _compute_stats,
\* _identify_data_type or validate_analysis_compatibility ends by raising an
\* exception, the age test of the classifier on a sample cell of digit
\* characters included.
C11_NoException ==
  returned \subseteq NormalReturns

\* C12: _compute_stats applied to zero rows returns, without raising, exactly
\* the canonical empty result: total_rows = 0, total_sales = 0.0,
\* avg_row_sales = 0.0, top_products empty and timeseries empty.
C12_EmptyResult ==
  (StatsReturned /\ rows = <<>>) =>
     /\ returned \subseteq NormalReturns
     /\ stats.total_rows = 0
     /\ stats.total_sales = [n |-> 0, d |-> 1]
     /\ stats.avg_row_sales = [n |-> 0, d |-> 1]
     /\ stats.top_products = <<>>
     /\ stats.timeseries = <<>>
     /\ DOMAIN stats = {"total_rows", "total_sales", "avg_row_sales", "top_products", "timeseries"}

\* C12 witness: the call on zero rows has returned
C12_Witness ==
  /\ StatsReturned
  /\ rows = <<>>
  /\ stats.total_rows = 0

-----------------------------------------------------------------------------
(* SpecNumber: _to_number on one cell value, and again on the text form of  *)
(* its result                                                              *)

\* how many times the text form of a result is taken as the next value
MaxPicks == 2

\* most lines of a csv text in SpecCsv
MaxCsvLines == 3

\* the texts of the str values: a body between a prefix and a suffix
NumberPrefixes == {<<>>, <<" ">>, <<"u00a5">>, <<"-">>, <<"+">>, <<"u00a5", " ">>}   \* ¥ ¥ 
NumberBodies ==
  {<<>>, <<"1", "0", "0", "0">>, <<"1", ",", "0", "0", "0">>, <<"a", "b", "c">>, <<"1", ".", "5">>, <<"1", "e", "3">>, <<".", "5">>, <<"1", "_", "0">>, <<"i", "n", "f">>, <<"n", "a", "n">>,
   <<"0", ".", "0", "0", "0", "0", "1">>, <<"1", "u5186", "0">>, <<"u00b2">>, <<"1", " ", "0", "0", "0">>, <<"0">>, <<"1", "e", "-", "2">>}   \* 1円0 ²
NumberSuffixes == {<<>>, <<"u5186">>, <<" ">>, <<",">>}   \* 円

\* the cell values: str, None, int, float and bool
NumberValues ==
  {StrValue(p \o b \o x) : p \in NumberPrefixes, b \in NumberBodies, x \in NumberSuffixes}
    \cup {None, BoolValue(TRUE), BoolValue(FALSE)}
    \cup {IntValue(i) : i \in {0, 7, -5, 1000}}
    \cup {FloatValue(x) : x \in {Zero, Rat(3, 2), Rat(1, 100000), Inf, NaN}}

InitNumber ==
  /\ value \in NumberValues
  /\ rows = <<>>
  /\ columns = <<>>
  /\ sample_data = <<>>
  /\ detected_data_type = ""
  /\ requested_analysis_type = ""
  /\ NoCall

\* str(number) becomes the value of the next call
TextForm ==
  /\ "_to_number" \in returned
  /\ picks < MaxPicks
  /\ value' = StrValue(FloatStr(number))
  /\ picks' = picks + 1
  /\ returned' = returned \ {"_to_number"}
  /\ UNCHANGED <<rows, columns, sample_data, detected_data_type, requested_analysis_type,
                 handler, colmap, stats, data_type, scores, compat, number, isolated>>

NextNumber == CallToNumber \/ TextForm

SpecNumber == InitNumber /\ [][NextNumber]_vars

NumberReturned == "_to_number" \in returned

\* text without its ',', '¥' and '円', trimmed
Cleaned(text) ==
  Strip(SelectSeq(text, LAMBDA c : c \notin {",", "u00a5", "u5186"}))   \* ¥ 円

\* C13: _to_number never raises for any cell value: it takes the value's text,
\* removes every ',', yen sign and yen character, trims surrounding whitespace,
\* and returns the number that text denotes when it is a valid floating-point
\* literal, otherwise exactly 0.0.  In particular "1000" gives 1000.0, the
\* text with yen sign, comma and yen character around 1000 gives 1000.0, and
\* "abc", "" and an absent value give 0.0.
C13_ToNumber ==
  /\ returned \subseteq NormalReturns
  /\ NumberReturned =>
       /\ number = IF IsFloatLiteral(Cleaned(PyStr(value)))
                   THEN FloatOf(Cleaned(PyStr(value)))
                   ELSE [n |-> 0, d |-> 1]
       /\ value = StrValue(<<"1", "0", "0", "0">>) => number = [n |-> 1000, d |-> 1]
       /\ value = StrValue(<<"u00a5", "1", ",", "0", "0", "0", "u5186">>) => number = [n |-> 1000, d |-> 1]   \* ¥1,000円
       /\ value \in {StrValue(<<"a", "b", "c">>), StrValue(<<>>), None} => number = [n |-> 0, d |-> 1]

\* C13 witness: the call on the text with yen sign, comma and yen character
\* has returned 1000.0
C13_Witness ==
  /\ NumberReturned
  /\ value = StrValue(<<"u00a5", "1", ",", "0", "0", "0", "u5186">>)   \* ¥1,000円
  /\ number = [n |-> 1000, d |-> 1]

\* C20: _to_number is idempotent: for every cell value x, applying _to_number
\* to the text form of _to_number(x) returns the same number as _to_number(x),
\* and applying it to an already-clean numeric string returns that string's
\* numeric value unchanged.
C20_Idempotent ==
  NumberReturned =>
     /\ picks >= 1 =>
          /\ isolated.f = "_to_number"
          /\ value = StrValue(FloatStr(isolated.outcome))
          /\ number = isolated.outcome
     /\ (TypeOf(value) = "str" /\ IsFloatLiteral(value.str)) =>
          number = FloatOf(value.str)

\* C20 witness: the first call gave 1000.0 for a text with yen sign and comma,
\* the second call gives 1000.0 for the text "1000.0"
C20_Witness ==
  /\ NumberReturned
  /\ picks = 1
  /\ isolated.args = <<StrValue(<<"u00a5", "1", ",", "0", "0", "0", "u5186">>)>>   \* ¥1,000円
  /\ value = StrValue(<<"1", "0", "0", "0", ".", "0">>)
  /\ number = [n |-> 1000, d |-> 1]

-----------------------------------------------------------------------------
(* Claims on the scores of _identify_data_type *)

\* the sum of the weights of the increments incs that go to category c
RECURSIVE SumWeights(_, _)
SumWeights(incs, c) ==
  IF incs = <<>> THEN 0
  ELSE (IF incs[1].cat = c THEN incs[1].weight ELSE 0) + SumWeights(Tail(incs), c)

\* keyword kw occurs in the column name col, in any case of its letters
OccursIn(kw, col) == Contains(Lower(col), Lower(kw))

\* one hit for every column name a keyword of a list occurs in
OccurrenceHits(cols) ==
  Concat([t \in DOMAIN KeywordTables |->
            Concat([i \in DOMAIN KeywordTables[t].kws |->
                      Concat([j \in DOMAIN cols |->
                                Increment(OccursIn(KeywordTables[t].kws[i], cols[j]),
                                          KeywordTables[t].cat, KeywordTables[t].tier,
                                          KeywordTables[t].weight)])])])

\* C14: a keyword that occurs in k different column names contributes k times
\* its weight to its category's score: keyword hits are summed per occurrence
\* across columns, with no deduplication.  (Stated on calls without a sample,
\* where the keyword loops alone make the scores.)
C14_PerOccurrence ==
  (/\ IdentifyReturned /\ columns # <<>> /\ sample_data = <<>>
   /\ \A i, j \in DOMAIN columns : columns[i] = columns[j] => i = j) =>
     \A i \in DOMAIN Categories :
        scores[Categories[i]] = SumWeights(OccurrenceHits(columns), Categories[i])

\* C15: every increment applied to a category score is 3 for a strong
\* column-name keyword, 1 or 2 for a medium column-name keyword, and between 3
\* and 5 for a value-pattern hit on a sample cell; keywords are matched as
\* case-insensitive substrings of the joined column names, and every score is
\* a non-negative integer starting from 0 on each call.
C15_IncrementWeights ==
  IdentifyReturned =>
     LET incs == Increments(columns, sample_data)
     IN /\ \A i \in DOMAIN incs :
             /\ incs[i].tier = "strong" => incs[i].weight = 3
             /\ incs[i].tier = "medium" => incs[i].weight \in 1..2
             /\ incs[i].tier = "value"  => incs[i].weight \in 3..5
        /\ \A t \in DOMAIN KeywordTables : \A i \in DOMAIN KeywordTables[t].kws :
             Contains(ColStr(columns), KeywordTables[t].kws[i])
               <=> OccursIn(KeywordTables[t].kws[i], Join(columns, <<" ">>))
        /\ \A i \in DOMAIN Categories :
             /\ scores[Categories[i]] \in Nat
             /\ scores[Categories[i]] = SumWeights(incs, Categories[i])

-----------------------------------------------------------------------------
(* SpecHr: _identify_data_type on the column names of the personnel sheet   *)
(* and a sample of one row under those names                               *)

HrColumns == <<<<"u6c0f", "u540d">>, <<"u90e8", "u7f72">>, <<"u7d66", "u4e0e">>, <<"u6b8b", "u696d", "u6642", "u9593">>>>   \* 氏名 部署 給与 残業時間

\* the cells of the sample row: a name, a mail address (customer 4), a
\* superscript two, a position (hr 3); a department (hr 5), a gender
\* (customer 3), the empty text; a salary, an age (customer 3), an amount with
\* a unit (inventory 2); hours below and within the ages
HrNameCells     == {<<"u5c71", "u7530">>, <<"a", "@", "b", ".", "c">>, <<"u00b2">>, <<"u4e3b", "u4efb">>}   \* 山田 ² 主任
HrDeptCells     == {<<"u55b6", "u696d", "u90e8">>, <<"u7537", "u6027">>, <<>>}   \* 営業部 男性
HrSalaryCells   == {<<"3", "0", "0", "0", "0", "0">>, <<"2", "5">>, <<"3", "0", "u4e07">>}   \* 30万
HrOvertimeCells == {<<"1", "0">>, <<"3", "0">>, <<"5", "u672c">>}   \* 5本

HrSamples ==
  {<<>>, <<<<>>>>}
    \cup {<<<<[k |-> HrColumns[1], v |-> a], [k |-> HrColumns[2], v |-> b],
              [k |-> HrColumns[3], v |-> c], [k |-> HrColumns[4], v |-> d]>>>> :
            a \in HrNameCells, b \in HrDeptCells, c \in HrSalaryCells, d \in HrOvertimeCells}

InitHr ==
  /\ columns = HrColumns
  /\ sample_data \in HrSamples
  /\ rows = <<>>
  /\ detected_data_type = ""
  /\ requested_analysis_type = ""
  /\ value = None
  /\ NoCall

NextHr == CallIdentifyDataType

SpecHr == InitHr /\ [][NextHr]_vars

\* C16: for any input whose column names are exactly 氏名, 部署, 給与, 残業時間,
\* whatever cell values the sample rows hold, _identify_data_type returns
\* hr_data, and the column-name keywords give a positive score to hr_data only
\* (zero keyword signal for the five other categories).
C16_HrColumns ==
  (IdentifyReturned /\ columns = HrColumns) =>
     /\ data_type = "hr_data"
     /\ sample_data = <<>> =>
          /\ scores.hr_data > 0
          /\ \A i \in DOMAIN Categories :
                Categories[i] # "hr_data" => scores[Categories[i]] = 0

-----------------------------------------------------------------------------
(* The two-row example *)

ExampleRows ==
  << <<[k |-> <<"u65e5", "u4ed8">>, v |-> <<"2", "0", "2", "4", "-", "0", "1", "-", "0", "1">>], [k |-> <<"u5546", "u54c1", "u540d">>, v |-> <<"A">>],   \* 日付 商品名
       [k |-> <<"u58f2", "u4e0a", "u91d1", "u984d">>, v |-> <<"5", "0", ",", "0", "0", "0">>]>>,   \* 売上金額
     <<[k |-> <<"u65e5", "u4ed8">>, v |-> <<"2", "0", "2", "4", "-", "0", "1", "-", "0", "1">>], [k |-> <<"u5546", "u54c1", "u540d">>, v |-> <<"B">>],   \* 日付 商品名
       [k |-> <<"u58f2", "u4e0a", "u91d1", "u984d">>, v |-> <<"3", "0", ",", "0", "0", "0">>]>> >>   \* 売上金額

\* C17: for the two rows (2024-01-01, A, "50,000") and (2024-01-01, B,
\* "30,000") under the columns 日付, 商品名, 売上金額, _compute_stats returns
\* total_sales = 80000.0, avg_row_sales = 40000.0, top_products = [(A,
\* 50000.0), (B, 30000.0)] and timeseries = [(2024-01-01, 80000.0)].
C17_TwoRowExample ==
  (StatsReturned /\ rows = ExampleRows) =>
     /\ stats.total_sales = [n |-> 80000, d |-> 1]
     /\ stats.avg_row_sales = [n |-> 40000, d |-> 1]
     /\ stats.top_products = << [name |-> <<"A">>, sales |-> [n |-> 50000, d |-> 1]],
                                [name |-> <<"B">>, sales |-> [n |-> 30000, d |-> 1]] >>
     /\ stats.timeseries = << [date |-> <<"2", "0", "2", "4", "-", "0", "1", "-", "0", "1">>, sales |-> [n |-> 80000, d |-> 1]] >>

\* C17 witness: the call on the two rows has returned, with two rows counted
C17_Witness ==
  /\ StatsReturned
  /\ rows = ExampleRows
  /\ stats.total_rows = 2

-----------------------------------------------------------------------------
(* SpecSeq: the five functions called one after another, in any order, each *)
(* called again on new arguments up to MaxPicks times in all                *)

\* the arguments the calls are made on
SeqValues == {StrValue(<<"1", ",", "0", "0", "0">>), StrValue(<<"a", "b", "c">>)}

SeqRows ==
  {<<>>,
   <<<<[k |-> <<"u65e5", "u4ed8">>, v |-> <<"9", "/", "1">>], [k |-> <<"u58f2", "u4e0a", "u91d1", "u984d">>, v |-> <<"5", "0", ",", "0", "0", "0">>]>>>>,   \* 日付 売上金額
   <<<<[k |-> <<"d", "a", "t", "e">>, v |-> <<"9", "/", "2">>], [k |-> <<"u5546", "u54c1", "u540d">>, v |-> <<"A">>]>>>>}   \* 商品名

SeqClassify ==
  {[columns |-> <<<<"u6c0f", "u540d">>>>, sample_data |-> <<>>],   \* 氏名
   [columns |-> <<<<"u9867", "u5ba2">>>>, sample_data |-> <<<<[k |-> <<"u90e8", "u7f72">>, v |-> <<"u00b2">>]>>>>]}   \* 顧客 部署 ²

SeqValidate ==
  {[detected |-> "hr_data", requested |-> "hr"],
   [detected |-> "sales_data", requested |-> "hr"]}

InitSeq ==
  /\ value \in SeqValues
  /\ rows \in SeqRows
  /\ \E c \in SeqClassify : columns = c.columns /\ sample_data = c.sample_data
  /\ \E v \in SeqValidate :
        detected_data_type = v.detected /\ requested_analysis_type = v.requested
  /\ NoCall

\* the call of f has ended, by a return or by an exception
Ended(f) == f \in returned \/ (f = "_identify_data_type" /\ "_identify_data_type: ValueError" \in returned)

\* results and the memo of the first call stay as they are
KeepResults == UNCHANGED <<handler, colmap, stats, data_type, scores, compat, number, isolated>>

\* a function that has ended is given new arguments for its next call
PickValue ==
  /\ Ended("_to_number") /\ picks < MaxPicks
  /\ value' \in SeqValues
  /\ returned' = returned \ {"_to_number"}
  /\ picks' = picks + 1
  /\ KeepResults
  /\ UNCHANGED <<rows, columns, sample_data, detected_data_type, requested_analysis_type>>

PickRows ==
  /\ Ended("_detect_columns") \/ Ended("_compute_stats")
  /\ picks < MaxPicks
  /\ rows' \in SeqRows
  /\ returned' = returned \ {"_detect_columns", "_compute_stats"}
  /\ picks' = picks + 1
  /\ KeepResults
  /\ UNCHANGED <<value, columns, sample_data, detected_data_type, requested_analysis_type>>

PickClassify ==
  /\ Ended("_identify_data_type") /\ picks < MaxPicks
  /\ \E c \in SeqClassify : columns' = c.columns /\ sample_data' = c.sample_data
  /\ returned' = returned \ {"_identify_data_type", "_identify_data_type: ValueError"}
  /\ picks' = picks + 1
  /\ KeepResults
  /\ UNCHANGED <<value, rows, detected_data_type, requested_analysis_type>>

PickValidate ==
  /\ Ended("validate_analysis_compatibility") /\ picks < MaxPicks
  /\ \E v \in SeqValidate :
        detected_data_type' = v.detected /\ requested_analysis_type' = v.requested
  /\ returned' = returned \ {"validate_analysis_compatibility"}
  /\ picks' = picks + 1
  /\ KeepResults
  /\ UNCHANGED <<value, rows, columns, sample_data>>

NextSeq ==
  \/ CallToNumber
  \/ CallDetectColumns
  \/ CallComputeStats
  \/ CallIdentifyDataType
  \/ CallValidate
  \/ PickValue
  \/ PickRows
  \/ PickClassify
  \/ PickValidate

SpecSeq == InitSeq /\ [][NextSeq]_vars

\* the arguments of f as they are now
ArgsOf(f) ==
  CASE f = "_to_number" -> <<value>>
    [] f = "_detect_columns" -> <<rows>>
    [] f = "_compute_stats" -> <<rows>>
    [] f = "_identify_data_type" -> <<columns, sample_data>>
    [] f = "validate_analysis_compatibility" -> <<detected_data_type, requested_analysis_type>>

\* the outcome of the last call of f
OutcomeOf(f) ==
  CASE f = "_to_number" -> number
    [] f = "_detect_columns" -> colmap
    [] f = "_compute_stats" -> stats
    [] f = "_identify_data_type" ->
         (IF "_identify_data_type: ValueError" \in returned THEN "ValueError" ELSE data_type)
    [] f = "validate_analysis_compatibility" -> compat

\* the last call of f was made on the arguments of the first call of all
RepeatsFirstCall(f) ==
  /\ Ended(f)
  /\ isolated.f = f
  /\ isolated.args = ArgsOf(f)

-----------------------------------------------------------------------------
(* SpecHandler: lambda_handler on an event, from its entry (line 1292) to   *)
(* the return (line 1581).  request holds what the handler reads of the     *)
(* event: the debug echo switch (LAMBDA_DEBUG_ECHO or ?echo=1), the HTTP    *)
(* method, whether the body is JSON, and of the JSON body the top-level     *)
(* keys event, action, installation and alert (top), the value under data,  *)
(* salesData (always a list here), analysisType and responseFormat.         *)

\* type_mapping.get(name, 'financial_data'), lines 1392-1401
type_mapping(name) ==
  CASE name = "sales" -> "sales_data"
    [] name = "hr" -> "hr_data"
    [] name = "marketing" -> "marketing_data"
    [] name = "inventory" -> "inventory_data"
    [] name = "customer" -> "customer_data"
    [] name = "financial" -> "financial_data"
    [] name = "strategic" -> "financial_data"
    [] OTHER -> "financial_data"

\* the slice of sales[:5]
SampleSize == 5

\* a row with the one column 商品
ItemRow(v) == <<[k |-> <<"u5546", "u54c1">>, v |-> v]>>   \* 商品

\* the salesData of the requests: none, the two rows of the example, a row of
\* a personnel sheet, a row the classifier raises on, a row whose amount is
\* inf, and six rows of which the classifier raises on the sixth
HandlerRows ==
  {<<>>,
   ExampleRows,
   <<<<[k |-> <<"u6c0f", "u540d">>, v |-> <<"u5c71", "u7530">>], [k |-> <<"u90e8", "u7f72">>, v |-> <<"u55b6", "u696d", "u90e8">>],   \* 氏名 山田 部署 営業部
       [k |-> <<"u7d66", "u4e0e">>, v |-> <<"3", "0", "0", "0", "0", "0">>]>>>>,   \* 給与
   <<<<[k |-> <<"u5546", "u54c1">>, v |-> <<"u00b2">>]>>>>,   \* 商品 ²
   <<<<[k |-> <<"u65e5", "u4ed8">>, v |-> <<"9", "/", "1">>], [k |-> <<"u58f2", "u4e0a", "u91d1", "u984d">>, v |-> <<"i", "n", "f">>]>>>>,   \* 日付 売上金額
   <<ItemRow(<<"A">>), ItemRow(<<"A">>), ItemRow(<<"B">>), ItemRow(<<"A">>), ItemRow(<<"B">>), ItemRow(<<"u00b2">>)>>}   \* ²

\* the names an analysisType is compared with (lines 1338, 1392-1400), as the
\* texts of the request
AnalysisNameText ==
  [sales |-> <<"s", "a", "l", "e", "s">>, hr |-> <<"h", "r">>, marketing |-> <<"m", "a", "r", "k", "e", "t", "i", "n", "g">>, inventory |-> <<"i", "n", "v", "e", "n", "t", "o", "r", "y">>,
   customer |-> <<"c", "u", "s", "t", "o", "m", "e", "r">>, financial |-> <<"f", "i", "n", "a", "n", "c", "i", "a", "l">>, strategic |-> <<"s", "t", "r", "a", "t", "e", "g", "i", "c">>,
   document |-> <<"d", "o", "c", "u", "m", "e", "n", "t">>]

\* the name a text stands for: "" for the empty text, "other" for a text that
\* is none of the names the handler compares with
NameOf(text) ==
  IF text = <<>> THEN ""
  ELSE IF \E n \in DOMAIN AnalysisNameText : AnalysisNameText[n] = text
       THEN CHOOSE n \in DOMAIN AnalysisNameText : AnalysisNameText[n] = text
       ELSE "other"

\* the analysisType taken as it is, without strip()
AnalysisTypeOf_NoStrip(req) == NameOf(req.analysisType)

\* line 1334: data.get("analysisType", "").strip()
AnalysisTypeOf(req) == NameOf(Strip(req.analysisType))

\* the analysisType of the requests: absent or empty, whitespace only, names
\* of the mapping bare and between spaces, a name outside the mapping, and
\* the name of the image branch
HandlerAnalysisTypes ==
  {<<>>, <<" ", " ">>, <<"h", "r">>, <<" ", "h", "r", " ">>, <<"s", "a", "l", "e", "s">>, <<"s", "t", "r", "a", "t", "e", "g", "i", "c">>, <<"o", "t", "h", "e", "r">>, <<"d", "o", "c", "u", "m", "e", "n", "t">>}

HandlerFormats == {"json", "markdown", "text"}

HandlerMethods == {"POST", "OPTIONS", "GET"}

\* the keys event, action, installation, alert of the body
HandlerTopKeys == {{}, {"event"}, {"action"}, {"installation"}, {"alert"}}

\* the value under the key data: no such key, a number, a mapping without
\* issue and event, a mapping whose issue is a mapping, a mapping whose issue
\* is a text, a mapping whose event is a mapping
HandlerDataValues ==
  {"absent", "number", "mapping", "mapping with issue", "mapping with text issue",
   "mapping with event"}

\* a body no part of which is read
UnreadBody ==
  [top |-> {}, data |-> "absent", salesData |-> <<>>, analysisType |-> <<>>,
   responseFormat |-> "json"]

\* the event: its method, echo switch, and body
Event(method, echo, json, body) ==
  [method |-> method, echo |-> echo, json |-> json, top |-> body.top, data |-> body.data,
   salesData |-> body.salesData, analysisType |-> body.analysisType,
   responseFormat |-> body.responseFormat]

InitHandler ==
  /\ \E echo \in BOOLEAN :
        \/ \E method \in HandlerMethods \ {"POST"} : request = Event(method, echo, TRUE, UnreadBody)
        \/ request = Event("POST", echo, FALSE, UnreadBody)
        \/ \E body \in [top : HandlerTopKeys, data : HandlerDataValues,
                        salesData : HandlerRows, analysisType : HandlerAnalysisTypes,
                        responseFormat : HandlerFormats] :
              request = Event("POST", echo, TRUE, body)
  /\ value = None
  /\ rows = <<>>
  /\ columns = <<>>
  /\ sample_data = <<>>
  /\ detected_data_type = ""
  /\ requested_analysis_type = ""
  /\ colmap = <<>>
  /\ stats = EmptyStats
  /\ data_type = ""
  /\ scores = ZeroScores
  /\ compat = NoCompat
  /\ number = Zero
  /\ returned = {}
  /\ isolated = NoFirstCall
  /\ picks = 0
  /\ pc = "idle"
  /\ response = NoResponse

\* what the handler leaves alone before it reads the inputs
BeforeInputs ==
  UNCHANGED <<request, arguments, picks, colmap, stats, data_type, scores, compat, number,
              isolated>>

\* lines 1294-1321: the debug echo, the method, the parsing of the body
HandlerEntry ==
  /\ pc = "idle"
  /\ request # NoRequest
  /\ IF request.echo
     THEN /\ response' = [statusCode |-> 200, body |-> [message |-> "DEBUG", format |-> "json"]]
          /\ pc' = "done"
     ELSE IF request.method = "OPTIONS"
     THEN /\ response' = [statusCode |-> 200, body |-> [ok |-> TRUE]]
          /\ pc' = "done"
     ELSE IF request.method # "POST"
     THEN /\ response' = [statusCode |-> 405, body |-> [message |-> "Use POST", format |-> "json"]]
          /\ pc' = "done"
     ELSE IF ~request.json
     THEN /\ response' = [statusCode |-> 400, body |-> [message |-> "INVALID_JSON", format |-> "json"]]
          /\ pc' = "done"
     ELSE /\ pc' = "sentry"
          /\ UNCHANGED response
  /\ UNCHANGED returned
  /\ BeforeInputs

\* is_sentry_webhook with only the top-level keys tested
is_sentry_webhook_TopLevelOnly(req) == req.top # {}

\* lines 1217-1223
is_sentry_webhook(req) ==
  \/ "event" \in req.top
  \/ "action" \in req.top
  \/ req.data \in {"mapping with issue", "mapping with text issue", "mapping with event"}
  \/ "installation" \in req.top
  \/ "alert" \in req.top

\* lines 1238-1251 raise: "issue" in a number, or .get of a text
SentryRaises(req) == req.data \in {"number", "mapping with text issue"}

\* lines 1326-1329 with process_sentry_webhook, lines 1213-1289: None for a
\* body that is no Sentry payload; else 200 whether the LINE notification
\* succeeded or not, or 500 from the except branch
HandlerSentry ==
  /\ pc = "sentry"
  /\ returned' = returned \cup {"process_sentry_webhook"}
  /\ IF ~is_sentry_webhook(request)
     THEN /\ pc' = "inputs"
          /\ UNCHANGED response
     ELSE /\ pc' = "done"
          /\ IF SentryRaises(request)
             THEN response' = [statusCode |-> 500,
                               body |-> [message |-> "Sentry webhook processing failed"]]
             ELSE \E success \in BOOLEAN :
                     response' = [statusCode |-> 200,
                                  body |-> [message |-> "Sentry webhook processed",
                                            line_notification |-> IF success THEN "success"
                                                                  ELSE "failed"]]
  /\ BeforeInputs

\* lines 1332-1387: the inputs; analysisType "document" without imageData is
\* answered with 400 at line 1343
HandlerInputs ==
  /\ pc = "inputs"
  /\ requested_analysis_type' = AnalysisTypeOf(request)
  /\ IF requested_analysis_type' = "document"
     THEN /\ response' = [statusCode |-> 400,
                          body |-> [response |-> [summary |-> "no image data", key_insights |-> <<>>,
                                                  recommendations |-> <<>>],
                                    format |-> "json", message |-> "Missing image data"]]
          /\ pc' = "done"
          /\ UNCHANGED <<rows, columns>>
     ELSE /\ rows' = request.salesData
          /\ columns' = IF rows' # <<>> THEN Keys(rows'[1]) ELSE <<>>
          /\ pc' = "type"
          /\ UNCHANGED response
  /\ UNCHANGED <<request, value, sample_data, detected_data_type, picks, colmap, stats,
                 data_type, scores, compat, number, returned, isolated>>

\* lines 1390-1405: the declared type is mapped, and only without one is the
\* classifier called, on the first rows; its ValueError is not caught
HandlerDecideType ==
  /\ pc = "type"
  /\ IF requested_analysis_type # ""
     THEN /\ data_type' = type_mapping(requested_analysis_type)
          /\ pc' = "stats"
          /\ UNCHANGED <<sample_data, detected_data_type, scores, returned, isolated>>
     ELSE /\ sample_data' = SubSeq(rows, 1, IF Len(rows) < SampleSize THEN Len(rows) ELSE SampleSize)
          /\ IF _identify_data_type_raises(columns, sample_data')
             THEN /\ returned' = returned \cup {"_identify_data_type: ValueError"}
                  /\ FirstCall("_identify_data_type", <<columns, sample_data'>>, "ValueError")
                  /\ pc' = "raised"
                  /\ UNCHANGED <<data_type, detected_data_type, scores>>
             ELSE /\ data_type' = _identify_data_type(columns, sample_data')
                  /\ detected_data_type' = data_type'
                  /\ scores' = FinalScores(columns, sample_data')
                  /\ returned' = returned \cup {"_identify_data_type"}
                  /\ FirstCall("_identify_data_type", <<columns, sample_data'>>, data_type')
                  /\ pc' = "stats"
  /\ UNCHANGED <<request, response, value, rows, columns, requested_analysis_type, picks,
                 colmap, stats, compat, number>>

\* line 1407
HandlerComputeStats ==
  /\ pc = "stats"
  /\ stats' = _compute_stats(rows)
  /\ returned' = returned \cup {"_compute_stats"}
  /\ FirstCall("_compute_stats", <<rows>>, stats')
  /\ pc' = "llm"
  /\ UNCHANGED <<request, response, arguments, picks, colmap, data_type, scores, compat, number>>

\* lines 1411-1451: the prompt is built from stats, the sample and data_type,
\* and the model is called; it answers, or raises and the except branch of
\* line 1449 makes the summary of the error
HandlerConverse ==
  /\ pc = "llm"
  /\ \E answered \in BOOLEAN :
        response' = [statusCode |-> 0,
                     summary_ai |-> IF answered THEN "ai_text" ELSE "(Bedrock error)"]
  /\ pc' = "report"
  /\ UNCHANGED <<request, arguments, picks, colmap, stats, data_type, scores, compat,
                 number, returned, isolated>>

\* int(x) raises for a float x: nan and the infinities
IntOfFloatRaises(x) == x.d = 0

\* lines 1453-1581: the report and the body; int() of the totals at line 1473
\* is outside every try
HandlerRespond ==
  /\ pc = "report"
  /\ IF IntOfFloatRaises(stats.total_sales) \/ IntOfFloatRaises(stats.avg_row_sales)
     THEN /\ pc' = "raised"
          /\ UNCHANGED response
     ELSE /\ response' =
               [statusCode |-> 200,
                body |-> [response |-> IF request.responseFormat \in {"markdown", "text"}
                                       THEN [summary_ai |-> response.summary_ai]
                                       ELSE [summary_ai |-> response.summary_ai,
                                             presentation_md |-> "presentation_md"],
                          format |-> request.responseFormat,
                          message |-> "OK",
                          model |-> "MODEL_ID"]]
          /\ pc' = "done"
  /\ UNCHANGED <<request, arguments, picks, colmap, stats, data_type, scores, compat,
                 number, returned, isolated>>

NextHandler ==
  \/ HandlerEntry
  \/ HandlerSentry
  \/ HandlerInputs
  \/ HandlerDecideType
  \/ HandlerComputeStats
  \/ HandlerConverse
  \/ HandlerRespond

SpecHandler == InitHandler /\ [][NextHandler]_vars

\* C19: in every analysis request that declares an intended analysis category,
\* the pipeline evaluates the compatibility validator on the classifier's
\* detected category and the declared category before the report is built,
\* and the resulting decision is part of the output record together with the
\* stats and the classification.
C19_ValidatorInPipeline ==
  (pc \in {"report", "done"} /\ requested_analysis_type \notin {"", "document"}) =>
     /\ "_identify_data_type" \in returned
     /\ "validate_analysis_compatibility" \in returned
     /\ pc = "done" => "compatibility" \in DOMAIN response.body

-----------------------------------------------------------------------------
(* SpecCells: _compute_stats on up to MaxCellRows rows whose date cell is   *)
(* missing, blank or a date text in one of several forms                   *)

MaxCellRows == 2

CellDates == {<<>>, <<" ", " ">>, <<"2", "0", "2", "4", "/", "0", "1", "/", "0", "1", " ", "0", "9", ":", "0", "0">>, <<"2", "0", "2", "4", "-", "0", "1", "-", "0", "1">>, <<" ", "2", "0", "2", "4", "/", "0", "1", "/", "0", "1">>, <<"9", "/", "1">>}
CellProducts == {<<"A">>}
CellSales == {<<"5", "0", ",", "0", "0", "0">>, <<"3", "0", ",", "0", "0", "0">>}

CellRowPool ==
  {d \o p \o s : d \in Cell(DateCol, CellDates),
                 p \in Cell(ProductCol, CellProducts),
                 s \in Cell(SalesCol, CellSales)}

InitCells ==
  /\ \E n \in 0..MaxCellRows : rows \in [1..n -> CellRowPool]
  /\ columns = <<>>
  /\ sample_data = <<>>
  /\ detected_data_type = ""
  /\ requested_analysis_type = ""
  /\ value = None
  /\ NoCall

NextCells == CallComputeStats

SpecCells == InitCells /\ [][NextCells]_vars

\* some key of the first row of rs passes Test
FirstRowHas(rs, Test(_)) ==
  rs # <<>> /\ \E i \in DOMAIN rs[1] : Test(rs[1][i].k)

\* C21: a role that _detect_columns leaves unbound only zeroes or omits its
\* own dimension of the stats and is never an error: with no amount role,
\* total_sales and avg_row_sales are 0.0 and every listed entity and day has
\* amount 0.0; with no entity role, top_products is empty; with no date role,
\* timeseries is empty; total_rows is the row count in all three cases.
C21_UnboundRoles ==
  /\ returned \subseteq NormalReturns
  /\ (StatsReturned /\ rows # <<>>) =>
       /\ ~FirstRowHas(rows, IsSalesName) =>
            /\ stats.total_sales = [n |-> 0, d |-> 1]
            /\ stats.avg_row_sales = [n |-> 0, d |-> 1]
            /\ \A e \in DOMAIN stats.top_products :
                  stats.top_products[e].sales = [n |-> 0, d |-> 1]
            /\ \A e \in DOMAIN stats.timeseries :
                  stats.timeseries[e].sales = [n |-> 0, d |-> 1]
            /\ stats.total_rows = Len(rows)
       /\ ~FirstRowHas(rows, IsProductName) =>
            /\ stats.top_products = <<>>
            /\ stats.total_rows = Len(rows)
       /\ ~FirstRowHas(rows, IsDateName) =>
            /\ stats.timeseries = <<>>
            /\ stats.total_rows = Len(rows)

\* C21 witness: the first row has a date cell only, the second row has an
\* entity and an amount; one day is listed with 0.0 and no entity is
C21_Witness ==
  /\ StatsReturned
  /\ Len(rows) = 2
  /\ Keys(rows[1]) = <<DateCol>>
  /\ Keys(rows[2]) = <<DateCol, ProductCol, SalesCol>>
  /\ Len(stats.timeseries) = 1
  /\ stats.timeseries[1].sales = [n |-> 0, d |-> 1]
  /\ stats.top_products = <<>>
  /\ stats.total_rows = 2

\* the date cell of row r is missing, empty or only whitespace
BlankDate(r) == ~HasKey(r, DateCol) \/ Strip(Get(r, DateCol, <<>>)) = <<>>

\* C22: a row whose date-role cell is missing, empty or only whitespace adds
\* nothing to the timeseries, but its normalized amount is still added to
\* total_sales, it is still counted in total_rows, and it is still
\* accumulated into its entity's ranking amount.
C22_BlankDateRows ==
  (StatsReturned /\ FirstRowHas(rows, IsDateName)) =>
     LET am    == RowAmounts(rows)
         blank == {i \in DOMAIN rows : BlankDate(rows[i])}
     IN /\ SumEntries(stats.timeseries) = SumOf(am, (DOMAIN rows) \ blank)
        /\ blank = DOMAIN rows => stats.timeseries = <<>>
        /\ stats.total_sales = SumOf(am, DOMAIN rows)
        /\ stats.total_rows = Len(rows)
        /\ FirstRowHas(rows, IsProductName) =>
             \A i \in blank :
                \E e \in DOMAIN stats.top_products :
                   /\ stats.top_products[e].name = RowEntities(rows)[i]
                   /\ stats.top_products[e].sales =
                        SumOf(am, {j \in DOMAIN rows :
                                     RowEntities(rows)[j] = RowEntities(rows)[i]})

\* C22 witness: the second row has a whitespace date cell; its 30000.0 is in
\* the total and under A but not in the timeseries
C22_Witness ==
  /\ StatsReturned
  /\ Len(rows) = 2
  /\ ~BlankDate(rows[1])
  /\ HasKey(rows[2], DateCol) /\ BlankDate(rows[2])
  /\ stats.total_sales = [n |-> 80000, d |-> 1]
  /\ Len(stats.timeseries) = 1
  /\ stats.timeseries[1].sales = [n |-> 50000, d |-> 1]
  /\ stats.top_products = <<[name |-> <<"A">>, sales |-> [n |-> 80000, d |-> 1]]>>

\* text stripped, with every '/' turned into '-', cut to 10 characters when
\* longer
Bucket(text) ==
  LET t == Strip(text)
      u == [i \in DOMAIN t |-> IF t[i] = "/" THEN "-" ELSE t[i]]
  IN IF Len(u) > 10 THEN SubSeq(u, 1, 10) ELSE u

\* the day buckets of the rows with a date cell that is not blank
Buckets == {Bucket(Get(rows[i], DateCol, <<>>)) : i \in {j \in DOMAIN rows : ~BlankDate(rows[j])}}

\* C23: the day bucket of a row is its date-role cell's text, stripped, with
\* every '/' replaced by '-', cut to its first 10 characters when it is longer
\* than 10 and left as is (never padded) when shorter; hence every timeseries
\* day has at most 10 characters and contains no '/', and two rows whose date
\* texts agree on their first 10 characters after the replacement (e.g.
\* "2024/01/01 09:00" and "2024-01-01") fall into the same bucket.
C23_DayBucket ==
  (StatsReturned /\ FirstRowHas(rows, IsDateName)) =>
     /\ {stats.timeseries[e].date : e \in DOMAIN stats.timeseries} = Buckets
     /\ Len(stats.timeseries) = Cardinality(Buckets)
     /\ \A e \in DOMAIN stats.timeseries :
           /\ Len(stats.timeseries[e].date) <= 10
           /\ ~Contains(stats.timeseries[e].date, <<"/">>)
     /\ Bucket(<<"9", "/", "1">>) = <<"9", "-", "1">>
     /\ Bucket(<<"2", "0", "2", "4", "/", "0", "1", "/", "0", "1", " ", "0", "9", ":", "0", "0">>) = Bucket(<<"2", "0", "2", "4", "-", "0", "1", "-", "0", "1">>)

\* C23 witness: a row dated 2024/01/01 09:00 and a row dated 2024-01-01 make
\* the one day 2024-01-01 with both amounts
C23_Witness ==
  /\ StatsReturned
  /\ Len(rows) = 2
  /\ Get(rows[1], DateCol, <<>>) = <<"2", "0", "2", "4", "/", "0", "1", "/", "0", "1", " ", "0", "9", ":", "0", "0">>
  /\ Get(rows[2], DateCol, <<>>) = <<"2", "0", "2", "4", "-", "0", "1", "-", "0", "1">>
  /\ stats.timeseries = <<[date |-> <<"2", "0", "2", "4", "-", "0", "1", "-", "0", "1">>, sales |-> [n |-> 80000, d |-> 1]]>>

-----------------------------------------------------------------------------
(* SpecLaterRows: _detect_columns called, then called again after the rows *)
(* behind the first have been replaced, up to MaxPicks times               *)

FirstRowNames == {<<"u5546", "u54c1", "u540d">>, <<"u58f2", "u4e0a", "u91d1", "u984d">>, <<"u65e5", "u4ed8">>, <<"u5099", "u8003">>}   \* 商品名 売上金額 日付 備考

LaterRowPool ==
  {<<>>,
   <<DetectRow(<<<<"u65e5", "u4ed8">>>>)>>,   \* 日付
   <<DetectRow(<<<<"u5546", "u54c1", "u540d">>, <<"u58f2", "u4e0a", "u91d1", "u984d">>>>)>>,   \* 商品名 売上金額
   <<DetectRow(<<<<"u58f2", "u4e0a", "u91d1", "u984d">>>>), DetectRow(<<<<"u65e5", "u4ed8">>, <<"u5546", "u54c1", "u540d">>>>)>>}   \* 売上金額 日付 商品名

InitLaterRows ==
  /\ \/ rows = <<>>
     \/ \E n \in 0..MaxCols :
          \E names \in [1..n -> FirstRowNames] :
             /\ \A i, j \in 1..n : names[i] = names[j] => i = j
             /\ \E more \in LaterRowPool : rows = <<DetectRow(names)>> \o more
  /\ columns = <<>>
  /\ sample_data = <<>>
  /\ detected_data_type = ""
  /\ requested_analysis_type = ""
  /\ value = None
  /\ NoCall

\* the rows behind the first are replaced by others
ChangeLaterRows ==
  /\ Ended("_detect_columns") /\ picks < MaxPicks
  /\ rows # <<>>
  /\ \E more \in LaterRowPool : rows' = <<rows[1]>> \o more
  /\ rows' # rows
  /\ returned' = returned \ {"_detect_columns"}
  /\ picks' = picks + 1
  /\ KeepResults
  /\ UNCHANGED <<value, columns, sample_data, detected_data_type, requested_analysis_type>>

NextLaterRows == CallDetectColumns \/ ChangeLaterRows

SpecLaterRows == InitLaterRows /\ [][NextLaterRows]_vars

\* the keys of row r
KeySet(r) == {r[i].k : i \in DOMAIN r}

\* the columns colmap binds
BoundColumns == {colmap[role] : role \in DOMAIN colmap}

\* C24: _detect_columns looks only at the keys of the first row: the map is
\* empty for an empty dataset, every bound column is a key of the first row, a
\* column that appears only in later rows is never bound to a role, and a
\* call on rows that differ from those of an earlier call only behind the
\* first row returns the role map of that earlier call.
C24_FirstRowOnly ==
  DetectReturned =>
    /\ rows = <<>> => colmap = <<>>
    /\ rows # <<>> =>
         /\ BoundColumns \subseteq KeySet(rows[1])
         /\ \A i \in 2..Len(rows) :
               \A k \in KeySet(rows[i]) \ KeySet(rows[1]) : k \notin BoundColumns
         /\ BoundToFirst("date", IsDateName)
         /\ BoundToFirst("sales", IsSalesName)
         /\ BoundToFirst("product", IsProductName)
         /\ ( /\ isolated.f = "_detect_columns"
              /\ isolated.args[1] # <<>>
              /\ isolated.args[1][1] = rows[1] ) => colmap = isolated.outcome

\* C24 witness: the first call was on the one row with 備考, the call now is
\* on that row followed by a row with 売上金額 and a row with 日付 and 商品名;
\* both returned the empty map
C24_Witness ==
  /\ DetectReturned
  /\ picks > 0
  /\ isolated.f = "_detect_columns"
  /\ isolated.args[1] = <<DetectRow(<<<<"u5099", "u8003">>>>)>>   \* 備考
  /\ rows = <<DetectRow(<<<<"u5099", "u8003">>>>), DetectRow(<<<<"u58f2", "u4e0a", "u91d1", "u984d">>>>), DetectRow(<<<<"u65e5", "u4ed8">>, <<"u5546", "u54c1", "u540d">>>>)>>   \* 備考 売上金額 日付 商品名
  /\ colmap = <<>>
  /\ isolated.outcome = <<>>

-----------------------------------------------------------------------------
(* SpecLaterSamples: _identify_data_type called, then called again after   *)
(* the sample rows behind the first have been replaced, up to MaxPicks     *)
(* times                                                                   *)

\* column names: 顧客 (sales, customer), 氏名 (hr), 備考 (none)
LaterColumns == {<<"u9867", "u5ba2">>, <<"u6c0f", "u540d">>, <<"u5099", "u8003">>}   \* 顧客 氏名 備考

\* the first sample row: no cell, a department, a superscript two, an age
\* under a 商品 key, a gender
FirstSampleRows ==
  {<<>>,
   <<[k |-> <<"u90e8", "u7f72">>, v |-> <<"u55b6", "u696d", "u90e8">>]>>,   \* 部署 営業部
   <<[k |-> <<"u90e8", "u7f72">>, v |-> <<"u00b2">>]>>,   \* 部署 ²
   <<[k |-> <<"u5546", "u54c1">>, v |-> <<"2", "5">>]>>,   \* 商品
   <<[k |-> <<"u90e8", "u7f72">>, v |-> <<"u7537", "u6027">>]>>}   \* 部署 男性

\* the sample rows behind the first
LaterSamplePool ==
  {<<>>,
   << <<[k |-> <<"u90e8", "u7f72">>, v |-> <<"u55b6", "u696d", "u90e8">>]>> >>,   \* 部署 営業部
   << <<[k |-> <<"u90e8", "u7f72">>, v |-> <<"u00b2">>]>> >>,   \* 部署 ²
   << <<[k |-> <<"u5546", "u54c1">>, v |-> <<"u7537", "u6027">>]>>, <<[k |-> <<"u90e8", "u7f72">>, v |-> <<"2", "5">>]>> >>}   \* 商品 男性 部署

InitLaterSamples ==
  /\ rows = <<>>
  /\ \E n \in 0..MaxClassCols : columns \in [1..n -> LaterColumns]
  /\ \/ sample_data = <<>>
     \/ \E first \in FirstSampleRows, more \in LaterSamplePool :
           sample_data = <<first>> \o more
  /\ detected_data_type = ""
  /\ requested_analysis_type = ""
  /\ value = None
  /\ NoCall

\* the sample rows behind the first are replaced by others
ChangeLaterSamples ==
  /\ Ended("_identify_data_type") /\ picks < MaxPicks
  /\ sample_data # <<>>
  /\ \E more \in LaterSamplePool : sample_data' = <<sample_data[1]>> \o more
  /\ sample_data' # sample_data
  /\ returned' = returned \ {"_identify_data_type", "_identify_data_type: ValueError"}
  /\ picks' = picks + 1
  /\ KeepResults
  /\ UNCHANGED <<value, rows, columns, detected_data_type, requested_analysis_type>>

NextLaterSamples == CallIdentifyDataType \/ ChangeLaterSamples

SpecLaterSamples == InitLaterSamples /\ [][NextLaterSamples]_vars

\* the first call made was of _identify_data_type, on the columns and the
\* first sample row of now
SameColumnsAndFirstRow ==
  /\ isolated.f = "_identify_data_type"
  /\ isolated.args[1] = columns
  /\ isolated.args[2] # <<>>
  /\ sample_data # <<>>
  /\ isolated.args[2][1] = sample_data[1]

\* C25: the category _identify_data_type returns depends only on the column
\* names and on the first row of the sample: a call with the columns and the
\* first sample row of an earlier call has the outcome of that call however
\* the remaining sample rows differ, and the scores are those of the call on
\* the first sample row alone, so a value pattern that occurs only in a
\* second or later row adds nothing.
C25_FirstSampleRowOnly ==
  /\ (Ended("_identify_data_type") /\ SameColumnsAndFirstRow) =>
        OutcomeOf("_identify_data_type") = isolated.outcome
  /\ (IdentifyReturned /\ sample_data # <<>>) =>
        /\ scores = FinalScores(columns, <<sample_data[1]>>)
        /\ data_type = _identify_data_type(columns, <<sample_data[1]>>)

\* C25 witness: the columns are 備考 alone and the first sample row has no
\* cell; the first call was on that row alone, the call now is on that row
\* followed by a row with a department, and both returned the default
C25_Witness ==
  /\ IdentifyReturned
  /\ picks > 0
  /\ SameColumnsAndFirstRow
  /\ columns = <<<<"u5099", "u8003">>>>   \* 備考
  /\ isolated.args[2] = << <<>> >>
  /\ sample_data = << <<>>, <<[k |-> <<"u90e8", "u7f72">>, v |-> <<"u55b6", "u696d", "u90e8">>]>> >>   \* 部署 営業部
  /\ isolated.outcome = "financial_data"
  /\ data_type = "financial_data"

\* text without its leading blanks, and without its trailing blanks
RECURSIVE DropLeading(_)
DropLeading(text) ==
  IF text # <<>> /\ Head(text) = " " THEN DropLeading(Tail(text)) ELSE text

RECURSIVE DropTrailing(_)
DropTrailing(text) ==
  IF text # <<>> /\ text[Len(text)] = " "
  THEN DropTrailing(SubSeq(text, 1, Len(text) - 1)) ELSE text

Trimmed(text) == DropTrailing(DropLeading(text))

\* the category the claim gives for the trimmed analysisType text
DeclaredCategory(text) ==
  CASE text = <<"s", "a", "l", "e", "s">> -> "sales_data"
    [] text = <<"h", "r">> -> "hr_data"
    [] text = <<"m", "a", "r", "k", "e", "t", "i", "n", "g">> -> "marketing_data"
    [] text = <<"i", "n", "v", "e", "n", "t", "o", "r", "y">> -> "inventory_data"
    [] text = <<"c", "u", "s", "t", "o", "m", "e", "r">> -> "customer_data"
    [] text = <<"f", "i", "n", "a", "n", "c", "i", "a", "l">> -> "financial_data"
    [] text = <<"s", "t", "r", "a", "t", "e", "g", "i", "c">> -> "financial_data"
    [] OTHER -> "financial_data"

\* the classifier has not been called
ClassifierNotRun ==
  /\ "_identify_data_type" \notin returned
  /\ "_identify_data_type: ValueError" \notin returned
  /\ isolated.f # "_identify_data_type"
  /\ scores = ZeroScores

\* the first n elements of s
FirstOf(s, n) == [i \in 1..(IF Len(s) < n THEN Len(s) ELSE n) |-> s[i]]

\* the data type has been decided and the prompt not yet built
TypeDecided == pc \in {"stats", "llm"}

\* C26: the data type handed to the prompt builder is the fixed mapping of
\* the request's analysisType when that is non-empty after trimming (sales,
\* hr, marketing, inventory, customer, financial to their *_data category,
\* strategic and any other name to financial_data), and then the classifier
\* is not run; when it is empty the data type is the result of
\* _identify_data_type on the first row's column names and the first 5 rows.
C26_DeclaredTypeFirst ==
  TypeDecided =>
    LET text == Trimmed(request.analysisType)
    IN IF text # <<>>
       THEN /\ data_type = DeclaredCategory(text)
            /\ ClassifierNotRun
       ELSE /\ "_identify_data_type" \in returned
            /\ isolated.f = "_identify_data_type"
            /\ isolated.args =
                 << IF request.salesData = <<>> THEN <<>> ELSE Keys(request.salesData[1]),
                    FirstOf(request.salesData, 5) >>
            /\ data_type = isolated.outcome

\* C26 witness: analysisType is " hr " and salesData the sales example; the
\* type is hr_data and the classifier, which says sales_data, was not called
C26_Witness ==
  /\ pc = "stats"
  /\ request.analysisType = <<" ", "h", "r", " ">>
  /\ request.salesData = ExampleRows
  /\ _identify_data_type(Keys(ExampleRows[1]), ExampleRows) = "sales_data"
  /\ data_type = "hr_data"
  /\ ClassifierNotRun

\* the request is a POST whose JSON body has a salesData list and a named
\* analysis, is no Sentry payload, and is not answered by the debug echo
AnalysisRequest ==
  /\ request # NoRequest
  /\ request.method = "POST" /\ request.json /\ ~request.echo
  /\ request.top = {} /\ request.data = "absent"
  /\ Trimmed(request.analysisType) \notin {<<>>, <<"d", "o", "c", "u", "m", "e", "n", "t">>}

\* C27: for a POST request whose JSON body carries a list of row mappings in
\* salesData and a text analysisType, lambda_handler returns statusCode 200
\* with a body containing response.summary_ai, whether the LLM call succeeds
\* or raises: the handler never ends by an exception, and what it returns
\* has status 200 and a summary_ai.
C27_AlwaysAnswers ==
  AnalysisRequest =>
    /\ pc # "raised"
    /\ pc = "done" =>
         /\ response.statusCode = 200
         /\ "response" \in DOMAIN response.body
         /\ "summary_ai" \in DOMAIN response.body.response

\* the body has a top-level key event, action, installation or alert, or its
\* data value is a mapping containing issue or event
SentryBody ==
  \/ request.top \cap {"event", "action", "installation", "alert"} # {}
  \/ request.data \in {"mapping with issue", "mapping with text issue", "mapping with event"}

\* the request is a POST with a JSON body
PostedBody == request # NoRequest /\ request.method = "POST" /\ request.json

\* the response is one process_sentry_webhook makes
AnsweredBySentry ==
  /\ pc = "done"
  /\ response.statusCode \in {200, 500}
  /\ response.body.message \in {"Sentry webhook processed", "Sentry webhook processing failed"}

\* no analysis step has been taken
NoAnalysisStep ==
  /\ returned \subseteq {"process_sentry_webhook"}
  /\ isolated = NoFirstCall
  /\ rows = <<>> /\ columns = <<>> /\ sample_data = <<>>
  /\ colmap = <<>> /\ stats = EmptyStats /\ data_type = "" /\ scores = ZeroScores

\* the handler has gone past the Sentry check
PastSentryCheck == pc \notin {"idle", "sentry"}

\* what C28 says of the posted bodies in P: a Sentry body is answered by
\* process_sentry_webhook with no analysis step taken, any other body leaves
\* the Sentry check for the analysis path and is answered there
SentryFirst(P) ==
  (P /\ PostedBody) =>
     IF SentryBody
     THEN /\ NoAnalysisStep
          /\ pc \in {"idle", "sentry", "done"}
          /\ pc = "done" => AnsweredBySentry
     ELSE /\ pc \in {"idle", "sentry", "inputs", "type", "stats", "llm", "report", "raised", "done"}
          /\ pc = "done" =>
                /\ ~AnsweredBySentry
                /\ "process_sentry_webhook" \in returned
                /\ requested_analysis_type = NameOf(Trimmed(request.analysisType))
                /\ response.body.message \in {"OK", "Missing image data"}

\* C28 as stated: every POST body with a Sentry key is answered by
\* process_sentry_webhook (status 200 or 500) and never reaches role
\* detection, classification or aggregation, even with salesData rows in the
\* same body; every body with none of these keys goes on to the analysis
\* path.
C28_SentryFirst_AsStated == SentryFirst(TRUE)

\* C28, amended: the same, of the requests the debug echo (LAMBDA_DEBUG_ECHO
\* or ?echo=1, lines 1294-1296) does not answer first.
C28_SentryFirst == SentryFirst(~request.echo)

\* C28 witness: a body with the key alert and the two example rows in
\* salesData has been answered by process_sentry_webhook with 200
C28_Witness ==
  /\ PostedBody /\ ~request.echo
  /\ request.top = {"alert"}
  /\ request.salesData = ExampleRows
  /\ AnsweredBySentry
  /\ response.statusCode = 200
  /\ NoAnalysisStep

-----------------------------------------------------------------------------
(* SpecCsv: _parse_csv_simple on the csv text of a body, a text of up to   *)
(* MaxCsvLines lines                                                       *)

\* lines: empty, blank, headers (plain, with blanks around the names, with a
\* name twice), and lines of one, two and three cells
CsvLines == {<<>>, <<" ", " ">>, <<"a", ",", "b">>, <<" ", "a", " ", ",", " ", "b">>, <<"a", ",", "a">>, <<"1", ",", "2">>, <<"1">>, <<"1", ",", " ", "2", " ", ",", "3">>}

\* the line ends of a text
CsvLineEnds == {<<"\n">>, <<"\r", "\n">>}

\* the lines ls, each but the last followed by the line end
RECURSIVE JoinLines(_, _)
JoinLines(ls, end) ==
  IF ls = <<>> THEN <<>>
  ELSE IF Len(ls) = 1 THEN ls[1]
  ELSE ls[1] \o end \o JoinLines(Tail(ls), end)

InitCsv ==
  /\ \E n \in 0..MaxCsvLines :
        \E ls \in [1..n -> CsvLines], end \in CsvLineEnds :
           request = [csv |-> JoinLines(ls, end)]
  /\ value = None
  /\ rows = <<>>
  /\ columns = <<>>
  /\ sample_data = <<>>
  /\ detected_data_type = ""
  /\ requested_analysis_type = ""
  /\ colmap = <<>>
  /\ stats = EmptyStats
  /\ data_type = ""
  /\ scores = ZeroScores
  /\ compat = NoCompat
  /\ number = Zero
  /\ returned = {}
  /\ isolated = NoFirstCall
  /\ picks = 0
  /\ pc = "idle"
  /\ response = NoResponse

NextCsv == CallParseCsv

SpecCsv == InitCsv /\ [][NextCsv]_vars

CsvReturned == "_parse_csv_simple" \in returned

\* the lines of the text that are not blank, in input order
TextLines ==
  LET ls == SplitLines(request.csv)
  IN SelectSeq(ls, LAMBDA l : \E i \in DOMAIN l : ~IsSpace(l[i]))

\* the comma-separated cells of line l, trimmed
TrimmedCells(l) ==
  LET cs == Split(l, ",") IN [i \in DOMAIN cs |-> Strip(cs[i])]

\* C29: _parse_csv_simple ignores blank lines, takes the first non-blank line
\* as the comma-separated header and returns one row per remaining non-blank
\* line in input order; every row has exactly the trimmed header names as its
\* keys, and under the header at each position the trimmed cell at that
\* position, or the empty string when the line has no cell there; cells
\* beyond the last header are dropped; a text with no non-blank line or with
\* only a header yields the empty list.
C29_ParseCsv ==
  CsvReturned =>
    /\ Len(TextLines) <= 1 => rows = <<>>
    /\ Len(TextLines) >= 1 =>
         LET headers == TrimmedCells(TextLines[1])
         IN /\ Len(rows) = Len(TextLines) - 1
            /\ \A n \in DOMAIN rows :
                  LET cells == TrimmedCells(TextLines[n + 1])
                  IN /\ {rows[n][i].k : i \in DOMAIN rows[n]} =
                          {headers[j] : j \in DOMAIN headers}
                     /\ \A j \in DOMAIN headers :
                           Get(rows[n], headers[j], <<"?">>) =
                             (IF j <= Len(cells) THEN cells[j] ELSE <<>>)

=============================================================================
